---- MODULE Spec2Model ----
(***************************************************************************)
(* CarlBox server: the chunked upload / delete protocol of                 *)
(* carlbox_server.py (FileManager and BLEHandler) as a state machine.      *)
(*                                                                         *)
(* Strings that the code takes apart (keys, file names) are sequences of   *)
(* one-character strings; file contents and chunks are sequences of bytes. *)
(* The sample tree is a function from the directories that exist under     *)
(* uploads_dir to the files they hold (name -> contents).                  *)
(***************************************************************************)
EXTENDS Integers, Sequences, FiniteSets, TLC

\* ------------------------------------------------------------------ bounds
MaxSize == 2      \* largest size announced by an upload command
MaxChunk == 2     \* longest raw chunk written to the transfer channel
\* Cap on the bytes buffered by one session (a session whose finalize does
\* not reset it keeps growing): the longest buffer a session can complete with.
MaxBuf == MaxSize + MaxChunk - 1

\* --------------------------------------------------------------- constants
CHUNK_SIZE == 512

\* The Python value None (no character string is <<"None">>).
None == <<"None">>

\* ----------------------------------------------------------------- strings
Chars ==
    {"K", "e", "y", "0", "1", "2", "3", "4", "5", "6", "7", "8", "9",
     "a", "b", "d", "m", "p", "v", "w", "A", "V", "W", ".", "/"}

\* Code point of a character (Python compares str by code point).
Ord(c) ==
    CASE c = "." -> 46 [] c = "/" -> 47
      [] c = "0" -> 48 [] c = "1" -> 49 [] c = "2" -> 50 [] c = "3" -> 51
      [] c = "4" -> 52 [] c = "5" -> 53 [] c = "6" -> 54 [] c = "7" -> 55
      [] c = "8" -> 56 [] c = "9" -> 57
      [] c = "A" -> 65 [] c = "K" -> 75 [] c = "V" -> 86 [] c = "W" -> 87
      [] c = "a" -> 97 [] c = "b" -> 98 [] c = "d" -> 100 [] c = "e" -> 101
      [] c = "m" -> 109 [] c = "p" -> 112 [] c = "v" -> 118 [] c = "w" -> 119
      [] c = "y" -> 121

\* str.lower() on one character.
LowerChar(c) ==
    CASE c = "A" -> "a" [] c = "K" -> "k" [] c = "V" -> "v" [] c = "W" -> "w"
      [] OTHER -> c

Lower(s) == [i \in 1..Len(s) |-> LowerChar(s[i])]

EndsWith(s, suf) ==
    /\ Len(s) >= Len(suf)
    /\ SubSeq(s, Len(s) - Len(suf) + 1, Len(s)) = suf

StartsWith(s, pre) ==
    /\ Len(s) >= Len(pre)
    /\ SubSeq(s, 1, Len(pre)) = pre

\* s < t in Python's str ordering.
RECURSIVE StrLess(_, _)
StrLess(s, t) ==
    IF t = <<>> THEN FALSE
    ELSE IF s = <<>> THEN TRUE
    ELSE IF Ord(Head(s)) # Ord(Head(t)) THEN Ord(Head(s)) < Ord(Head(t))
    ELSE StrLess(Tail(s), Tail(t))

\* sorted(S) for a finite set of strings.
RECURSIVE Sorted(_)
Sorted(S) ==
    IF S = {} THEN <<>>
    ELSE LET m == CHOOSE x \in S : \A y \in S \ {x} : StrLess(x, y)
         IN  <<m>> \o Sorted(S \ {m})

\* Index of the last "/" in p, 0 when there is none.
LastSep(p) ==
    LET I == {i \in 1..Len(p) : p[i] = "/"}
    IN  IF I = {} THEN 0 ELSE CHOOSE i \in I : \A j \in I : j <= i

\* os.path.basename: everything after the last "/".
basename(p) == SubSeq(p, LastSep(p) + 1, Len(p))

EXT_WAV == <<".", "w", "a", "v">>
EXT_MP3 == <<".", "m", "p", "3">>
SUPPORTED_EXTENSIONS == {EXT_WAV, EXT_MP3}

\* -------------------------------------------------------------------- keys
DigitChar(n) ==
    CASE n = 0 -> "0" [] n = 1 -> "1" [] n = 2 -> "2" [] n = 3 -> "3"
      [] n = 4 -> "4" [] n = 5 -> "5" [] n = 6 -> "6" [] n = 7 -> "7"
      [] n = 8 -> "8" [] n = 9 -> "9"

\* str(i) for 1 <= i <= 99.
Digits(i) ==
    IF i < 10 THEN <<DigitChar(i)>> ELSE <<DigitChar(i \div 10), DigitChar(i % 10)>>

KeyName(i) == <<"K", "e", "y">> \o Digits(i)

\* The dict NOTE_MAPPING in insertion order: "Key1" -> 50 ... "Key12" -> 61.
NOTE_MAPPING == [i \in 1..12 |-> [key |-> KeyName(i), note |-> 49 + i]]

KeyNames == {NOTE_MAPPING[i].key : i \in DOMAIN NOTE_MAPPING}

K1 == KeyName(1)
K2 == KeyName(2)

\* -------------------------------------------------------------- file names
A_WAV == <<"a", ".", "w", "a", "v">>
B_WAV == <<"b", ".", "w", "a", "v">>
D_B_WAV == <<"d", "/">> \o B_WAV      \* "d/b.wav": base component "b.wav"
A_SLASH == <<"a", "/">>               \* "a/": empty base component
UP_X == <<".", ".", "/", "x">>        \* "../x": a key that leaves the root
KEY13 == <<"K", "e", "y", "1", "3">>  \* "Key13": a key that is no slot

\* --------------------------------------------------------- the sample tree
EmptyDir == <<>>

isdir(d, key) == key \in DOMAIN d

isfile(d, key, name) == isdir(d, key) /\ name \in DOMAIN d[key]

\* The tree with directory key created if absent (os.makedirs, exist_ok).
makedirs(d, key) == IF isdir(d, key) THEN d ELSE (key :> EmptyDir) @@ d

\* The tree with file key/name holding exactly the bytes `contents`.
WriteFile(d, key, name, contents) ==
    [d EXCEPT ![key] = (name :> contents) @@ d[key]]

\* Mutant of RemoveFile: the directory is emptied.
RemoveEveryFile(d, key, name) == [d EXCEPT ![key] = EmptyDir]

\* The tree without file key/name (os.remove).
RemoveFile(d, key, name) ==
    [d EXCEPT ![key] = [n \in (DOMAIN d[key]) \ {name} |-> d[key][n]]]

\* -------------------------------------------------------------- FileManager
\* The upload state of FileManager.__init__ and of _reset_upload.
ResetState ==
    [upload_key |-> None, upload_filename |-> None,
     upload_expected_size |-> 0, upload_buffer |-> <<>>]

\* Mutant of Eligible: hidden files pass.
EligibleHidden(f) == \E ext \in SUPPORTED_EXTENSIONS : EndsWith(Lower(f), ext)

\* The filter of list_all_files: a supported extension, not hidden.
Eligible(f) ==
    /\ \E ext \in SUPPORTED_EXTENSIONS : EndsWith(Lower(f), ext)
    /\ ~StartsWith(f, <<".">>)

\* list_all_files: every key of NOTE_MAPPING, each with its sorted eligible
\* names; a missing directory or one whose listing raises OSError gives [].
list_all_files(d, unreadable) ==
    [k \in KeyNames |->
        IF isdir(d, k) /\ k \notin unreadable
        THEN Sorted({f \in DOMAIN d[k] : Eligible(f)})
        ELSE <<>>]

\* Mutant of delete_file: a file that is not there is reported deleted.
DeleteReportsSuccess(d, key, filename, io) ==
    LET safe_filename == basename(filename)
    IN  IF isfile(d, key, safe_filename)
        THEN IF io.kind = "remove_fail"
             THEN [disk |-> d, ret |-> FALSE, hit |-> TRUE]
             ELSE [disk |-> RemoveFile(d, key, safe_filename), ret |-> TRUE,
                   hit |-> FALSE]
        ELSE [disk |-> d, ret |-> TRUE, hit |-> FALSE]

\* delete_file: remove key/basename(filename) when it is a file.
delete_file(d, key, filename, io) ==
    LET safe_filename == basename(filename)
    IN  IF isfile(d, key, safe_filename)
        THEN IF io.kind = "remove_fail"
             THEN [disk |-> d, ret |-> FALSE, hit |-> TRUE]
             ELSE [disk |-> RemoveFile(d, key, safe_filename), ret |-> TRUE,
                   hit |-> FALSE]
        ELSE [disk |-> d, ret |-> FALSE, hit |-> FALSE]

\* Mutant of begin_upload: the buffer of the earlier session is kept.
BeginKeepsBuffer(f, key, filename, size) ==
    [upload_key |-> key, upload_filename |-> basename(filename),
     upload_expected_size |-> size, upload_buffer |-> f.upload_buffer]

begin_upload(f, key, filename, size) ==
    [upload_key |-> key, upload_filename |-> basename(filename),
     upload_expected_size |-> size, upload_buffer |-> <<>>]

receive_chunk(f, data) ==
    [f EXCEPT !.upload_buffer = @ \o data]

\* Mutant of upload_in_progress: the Idle check is lost.
AlwaysInProgress(f) == TRUE

upload_in_progress(f) == f.upload_key # None

\* Mutant of upload_complete: complete as soon as any byte is buffered.
CompleteOnAnyByte(f) ==
    /\ f.upload_key # None
    /\ Len(f.upload_buffer) >= 1

upload_complete(f) ==
    /\ f.upload_key # None
    /\ Len(f.upload_buffer) >= f.upload_expected_size

bytes_received(f) == Len(f.upload_buffer)

\* Python truthiness of a str-or-None value.
Falsy(s) == s = None \/ s = <<>>

\* Mutant of finalize_upload: only the announced number of bytes is written.
FinalizeTruncates(f, d, io) ==
    IF Falsy(f.upload_key) \/ Falsy(f.upload_filename)
    THEN [fm |-> f, disk |-> d, ret |-> FALSE, raised |-> "none", hit |-> FALSE]
    ELSE IF ~isdir(d, f.upload_key) /\ io.kind = "mkdir_fail"
    THEN [fm |-> f, disk |-> d, ret |-> FALSE, raised |-> "OSError", hit |-> TRUE]
    ELSE
      LET d1 == makedirs(d, f.upload_key)
          buf == SubSeq(f.upload_buffer, 1, f.upload_expected_size)
      IN  IF io.kind = "open_fail"
          THEN [fm |-> ResetState, disk |-> d1, ret |-> FALSE,
                raised |-> "none", hit |-> TRUE]
          ELSE IF io.kind = "write_fail" /\ io.n < Len(buf)
          THEN [fm |-> ResetState, ret |-> FALSE, raised |-> "none", hit |-> TRUE,
                disk |-> WriteFile(d1, f.upload_key, f.upload_filename,
                                   SubSeq(buf, 1, io.n))]
          ELSE [fm |-> ResetState, ret |-> TRUE, raised |-> "none", hit |-> FALSE,
                disk |-> WriteFile(d1, f.upload_key, f.upload_filename, buf)]

\* finalize_upload.  io is what the operating system does with the calls:
\*   ok          every call succeeds
\*   mkdir_fail  os.makedirs raises OSError (outside the try: it escapes)
\*   open_fail   open(file_path, 'wb') raises OSError, the file is untouched
\*   write_fail  open truncated the file, f.write raises after io.n bytes
\* hit tells whether that failure was met on the path taken.
finalize_upload(f, d, io) ==
    IF Falsy(f.upload_key) \/ Falsy(f.upload_filename)
    THEN [fm |-> f, disk |-> d, ret |-> FALSE, raised |-> "none", hit |-> FALSE]
    ELSE IF ~isdir(d, f.upload_key) /\ io.kind = "mkdir_fail"
    THEN [fm |-> f, disk |-> d, ret |-> FALSE, raised |-> "OSError", hit |-> TRUE]
    ELSE
      LET d1 == makedirs(d, f.upload_key)
      IN  IF io.kind = "open_fail"
          THEN [fm |-> ResetState, disk |-> d1, ret |-> FALSE,
                raised |-> "none", hit |-> TRUE]
          ELSE IF io.kind = "write_fail" /\ io.n < Len(f.upload_buffer)
          THEN [fm |-> ResetState, ret |-> FALSE, raised |-> "none", hit |-> TRUE,
                disk |-> WriteFile(d1, f.upload_key, f.upload_filename,
                                   SubSeq(f.upload_buffer, 1, io.n))]
          ELSE [fm |-> ResetState, ret |-> TRUE, raised |-> "none", hit |-> FALSE,
                disk |-> WriteFile(d1, f.upload_key, f.upload_filename,
                                   f.upload_buffer)]

get_transfer_status(f) ==
    IF ~upload_in_progress(f)
    THEN [status |-> "idle"]
    ELSE [status |-> "receiving", key |-> f.upload_key,
          filename |-> f.upload_filename,
          bytes_received |-> bytes_received(f),
          bytes_expected |-> f.upload_expected_size]

\* --------------------------------------------------------------- BLEHandler
\* cmd.get(k, dflt) on a decoded JSON object.
Get(cmd, k, dflt) == IF k \in DOMAIN cmd THEN cmd[k] ELSE dflt

\* _notify_status: the transfer-status characteristic is set and notified.
notify_status(status) == [uuid |-> "TRANSFER_STATUS", value |-> status]

\* _notify_file_list: the file-list characteristic is set and notified.
notify_file_list(d, unreadable) ==
    [uuid |-> "FILE_LIST", value |-> list_all_files(d, unreadable)]

\* What one callback did: the new upload state and tree, the notifications
\* it sent in order, the exception that escaped it ("none" if it returned),
\* how finalize_upload ended if it was called ("none" if not), whether the
\* operating-system failure io was actually met, whether begin_upload was
\* called, and whether a directory listing was taken.
Outcome(f, d, n, r, fin, hit) ==
    [fm |-> f, disk |-> d, notified |-> n, raised |-> r, fin |-> fin, hit |-> hit,
     began |-> FALSE, listed |-> \E i \in DOMAIN n : n[i].uuid = "FILE_LIST"]

\* Mutant of cmd_key: the key is read from the field "slot".
CmdKeyFromSlot(cmd) == Get(cmd, "slot", <<>>)

\* The fields a command's key and file name are read from (lines 232-233,
\* 242-243) and the size (line 234).
cmd_key(cmd) == Get(cmd, "key", <<>>)
cmd_filename(cmd) == Get(cmd, "filename", <<>>)
cmd_size(cmd) == Get(cmd, "size", 0)

\* Mutant of upload_rejected: a size of 0 is let through.
RejectsOnlyNegativeSize(key, filename, size) ==
    key = <<>> \/ filename = <<>> \/ size < 0

\* The test of line 235: not key or not filename or size <= 0.
upload_rejected(key, filename, size) ==
    key = <<>> \/ filename = <<>> \/ size <= 0

\* The test of line 244: not key or not filename.
delete_rejected(key, filename) ==
    key = <<>> \/ filename = <<>>

\* json.loads(value.decode('utf-8')): the exception it raises, "none" when
\* the payload is JSON text.
json_loads(payload) ==
    CASE payload.kind = "bad_utf8" -> "UnicodeDecodeError"
      [] payload.kind = "malformed" -> "JSONDecodeError"
      [] OTHER -> "none"

\* Mutant of DecodeErrors: only a JSON syntax error is caught.
JSONErrorOnly == {"JSONDecodeError"}

\* The exceptions the except clause of _handle_command catches.
DecodeErrors == {"JSONDecodeError", "UnicodeDecodeError"}

\* Mutant of unknown_action: a fixed message.
UnknownActionFixed(action) ==
    notify_status([status |-> "error", message |-> <<"unknown action">>])

\* The answer to a command whose action is neither upload nor delete.
unknown_action(action) ==
    notify_status([status |-> "error", message |-> <<"unknown action: ", action>>])

\* The command object gives its size as a JSON string, not a number.
size_is_text(payload) == "text" \in DOMAIN payload /\ "size" \in DOMAIN payload.text

\* _handle_command.  payload.kind is
\*   bad_utf8   bytes that are not UTF-8
\*   malformed  UTF-8 text that is not JSON
\*   nonobject  JSON that is not an object: cmd.get raises AttributeError
\*   object     a JSON object, payload.fields its members that hold what
\*              the code expects (a string, a number), payload.text those
\*              that hold a string where the code expects a number
handle_command(f, d, payload, io, unreadable) ==
    IF json_loads(payload) # "none"
    THEN IF json_loads(payload) \in DecodeErrors
         THEN Outcome(f, d,
                <<notify_status([status |-> "error", message |-> <<"invalid JSON">>])>>,
                "none", "none", FALSE)
         ELSE Outcome(f, d, <<>>, json_loads(payload), "none", FALSE)
    ELSE IF payload.kind = "nonobject"
    THEN Outcome(f, d, <<>>, "AttributeError", "none", FALSE)
    ELSE
      LET cmd == payload.fields
          action == Get(cmd, "action", "None")
      IN
      IF action = "upload"
      THEN LET key == cmd_key(cmd)
               filename == cmd_filename(cmd)
               size == cmd_size(cmd)
           IN  IF key # <<>> /\ filename # <<>> /\ size_is_text(payload)
               THEN Outcome(f, d, <<>>, "TypeError", "none", FALSE)
               ELSE IF upload_rejected(key, filename, size)
               THEN Outcome(f, d,
                      <<notify_status([status |-> "error",
                          message |-> <<"missing key/filename/size">>])>>,
                      "none", "none", FALSE)
               ELSE [Outcome(begin_upload(f, key, filename, size), d,
                       <<notify_status([status |-> "ready"])>>,
                       "none", "none", FALSE) EXCEPT !.began = TRUE]
      ELSE IF action = "delete"
      THEN LET key == cmd_key(cmd)
               filename == cmd_filename(cmd)
           IN  IF delete_rejected(key, filename)
               THEN Outcome(f, d,
                      <<notify_status([status |-> "error",
                          message |-> <<"missing key/filename">>])>>,
                      "none", "none", FALSE)
               ELSE LET r == delete_file(d, key, filename, io)
                    IN  Outcome(f, r.disk,
                          <<notify_status(
                              [status |-> IF r.ret THEN "deleted" ELSE "error"]),
                            notify_file_list(r.disk, unreadable)>>,
                          "none", "none", r.hit)
      ELSE Outcome(f, d, <<unknown_action(action)>>, "none", "none", FALSE)

\* The throttle of line 270.
progress_due(total) == total % (CHUNK_SIZE * 10) < CHUNK_SIZE

\* _handle_transfer_chunk.
handle_transfer_chunk(f, d, data, io, unreadable) ==
    IF ~upload_in_progress(f)
    THEN Outcome(f, d, <<>>, "none", "none", FALSE)
    ELSE
      LET f1 == receive_chunk(f, data)
          total == Len(f1.upload_buffer)
      IN  IF upload_complete(f1)
          THEN LET r == finalize_upload(f1, d, io)
               IN  IF r.raised # "none"
                   THEN Outcome(r.fm, r.disk, <<>>, r.raised, "raised", r.hit)
                   ELSE Outcome(r.fm, r.disk,
                          <<notify_status(
                              [status |-> IF r.ret THEN "complete" ELSE "error"]),
                            notify_file_list(r.disk, unreadable)>>,
                          "none", IF r.ret THEN "true" ELSE "false", r.hit)
          ELSE IF progress_due(total)
          THEN Outcome(f1, d, <<notify_status(get_transfer_status(f1))>>,
                       "none", "none", FALSE)
          ELSE Outcome(f1, d, <<>>, "none", "none", FALSE)

\* ------------------------------------------------------------------ inputs
UploadCmd(k, f, n) ==
    [kind |-> "object",
     fields |-> [action |-> "upload", key |-> k, filename |-> f, size |-> n]]

DeleteCmd(k, f) ==
    [kind |-> "object", fields |-> [action |-> "delete", key |-> k, filename |-> f]]

\* The command objects as the interface table documents them.
DocUploadCmd(k, f, n) ==
    [kind |-> "object",
     fields |-> [action |-> "upload", slot |-> k, fileName |-> f, size |-> n]]

DocDeleteCmd(k, f) ==
    [kind |-> "object", fields |-> [action |-> "delete", slot |-> k, fileName |-> f]]

\* The (key, filename) pairs the client uploads to: a plain name, a name with
\* a directory part, and a name whose base component is empty.
UploadTargets == {<<K1, A_WAV>>, <<K2, D_B_WAV>>, <<K1, A_SLASH>>}

\* The commands of a client that transfers and deletes files, with one
\* command the dispatcher rejects.
TransferPayloads ==
    {UploadCmd(t[1], t[2], n) : t \in UploadTargets, n \in 1..MaxSize}
    \cup {DeleteCmd(t[1], t[2]) : t \in UploadTargets}
    \cup {UploadCmd(K1, A_WAV, 0)}

\* Every kind of payload the command characteristic may be written with.
Payloads ==
    TransferPayloads
    \cup {UploadCmd(<<>>, A_WAV, 1), UploadCmd(K1, <<>>, 1),
          UploadCmd(K1, A_WAV, -1),
          [kind |-> "object",
           fields |-> [action |-> "upload", filename |-> A_WAV, size |-> 1]],
          [kind |-> "object",
           fields |-> [action |-> "upload", key |-> K1, filename |-> A_WAV]]}
    \cup {DeleteCmd(K1, <<>>),
          [kind |-> "object", fields |-> [action |-> "delete", filename |-> A_WAV]]}
    \cup {DocUploadCmd(K1, A_WAV, 1), DocDeleteCmd(K1, A_WAV)}
    \cup {[kind |-> "object", fields |-> [action |-> "rename", key |-> K1]],
          [kind |-> "object", fields |-> [key |-> K1]],
          [kind |-> "malformed"], [kind |-> "bad_utf8"], [kind |-> "nonobject"],
          [kind |-> "object",
           fields |-> [action |-> "upload", key |-> K1, filename |-> A_WAV],
           text |-> [size |-> <<"1">>]]}

\* The client sends the bytes 1, 2, 3, ... of its file in order, cut into
\* chunks of any length up to MaxChunk: the chunk of n bytes that follows the
\* first `offset` bytes.
SourceByte(i) == i % 256
ChunkAt(offset, n) == [i \in 1..n |-> SourceByte(offset + i)]

\* What the operating system does during one callback: the failure it
\* injects (see finalize_upload, delete_file) and the key directories whose
\* listing raises OSError.
Env(kind, n, unreadable) == [kind |-> kind, n |-> n, unreadable |-> unreadable]

\* Every call succeeds, or the listing of Key1 fails.
ListingEnvs == {Env("ok", 0, {}), Env("ok", 0, {K1})}

\* What may happen while a command is handled.
CommandEnvs == ListingEnvs \cup {Env("remove_fail", 0, {})}

\* What may happen to the file while a chunk is handled.
ChunkEnvs ==
    {Env("ok", 0, {}), Env("mkdir_fail", 0, {}), Env("open_fail", 0, {})}
    \cup {Env("write_fail", n, {}) : n \in 0..(MaxBuf - 1)}

\* Trees the appliance may start on: no key directory yet, or Key1 holding
\* an earlier a.wav.
OLD_A_WAV == <<7, 7>>
InitDisks == {<<>>, (K1 :> (A_WAV :> OLD_A_WAV))}

\* ------------------------------------------------------------------- state
VARIABLES
    fm,        \* FileManager's upload state
    disk,      \* the sample tree under uploads_dir
    notified,  \* notifications sent by the last callback, in order
    raised,    \* exception that escaped the last callback, "none" if none
    client,    \* the client's own record of the upload it has under way: the
               \* key, file name and size it announced, the bytes it has sent
    last,      \* the last callback: which, its argument, what the OS did,
               \* how finalize_upload ended if it was called, and the
               \* client's record, the upload state and the tree as they
               \* were when the callback started
    running,   \* FALSE once the process was shut down
    progress,  \* "receiving" notifications sent since the client's latest
               \* begin (counted where the throttle is examined)
    loader,    \* SampleLoader: samples, _file_cache, _last_scan_time
    now,       \* time.time(), in whole seconds
    mixer,     \* pygame.mixer: the sound each channel is playing
    midi_in,   \* the events waiting in the MIDI input, oldest first
    proc       \* the process: which program, where it is, its resources

vars ==
    <<fm, disk, notified, raised, client, last, running, progress, loader, now,
      mixer, midi_in, proc>>

\* The mixer's channels (pygame has 8; the sampler uses channel 0 only).
NumChannels == 2

\* No sound: what an idle channel plays and what get_sample returns for a
\* note without a sample (None).
NoSound == [file |-> None, mtime |-> 0]

\* The mixer after pygame.mixer.init(): every channel idle.
MixerInit == [c \in 0..(NumChannels - 1) |-> NoSound]

\* Outside the sampler's loop: no process is followed.
NoProcess == [pc |-> "none"]

\* The mixer, the MIDI input and the process as the BLE callbacks and the
\* loader's own calls leave them.
SamplerIdle == mixer = MixerInit /\ midi_in = <<>> /\ proc = NoProcess

\* SampleLoader.__init__.
LoaderInit == [samples |-> <<>>, file_cache |-> <<>>, last_scan_time |-> 0]

\* The clock when the process starts (seconds; any value >= scan_interval).
StartTime == 10

\* The client has no upload under way.
NoClient == [key |-> None, filename |-> None, size |-> 0, sent |-> <<>>]

\* The client's record right after the upload command c was answered "ready".
Announced(c) ==
    [key |-> Get(c, "key", None), filename |-> Get(c, "filename", None),
     size |-> Get(c, "size", 0), sent |-> <<>>]

Init ==
    /\ fm = ResetState
    /\ disk \in InitDisks
    /\ notified = <<>>
    /\ raised = "none"
    /\ client = NoClient
    /\ last = [op |-> "init", arg |-> <<>>, io |-> "ok", fin |-> "none",
               client |-> NoClient, fm |-> fm, disk |-> disk]
    /\ running = TRUE
    /\ progress = 0
    /\ loader = LoaderInit
    /\ now = StartTime
    /\ SamplerIdle

\* A write to the command characteristic (on_write -> _handle_command), its
\* payload drawn from P, the operating system behaving as one of E.
WriteCommand(P, E) ==
    /\ running
    /\ \E payload \in P, env \in E :
         \E r \in {handle_command(fm, disk, payload, env, env.unreadable)} :
             /\ env.kind = "ok" \/ r.hit
             /\ env.unreadable = {} \/ r.listed
             /\ fm' = r.fm
             /\ disk' = r.disk
             /\ notified' = r.notified
             /\ raised' = r.raised
             /\ last' = [op |-> "command", arg |-> payload, io |-> env.kind,
                         fin |-> r.fin, client |-> client, fm |-> fm,
                         disk |-> disk]
             /\ client' = IF r.began THEN Announced(payload.fields) ELSE client
    /\ UNCHANGED <<running, mixer, midi_in, proc>>

\* A write to the transfer characteristic (on_write -> _handle_transfer_chunk),
\* the operating system behaving as one of E.
WriteChunk(E) ==
    /\ running
    /\ \E n \in {m \in 0..MaxChunk : Len(fm.upload_buffer) + m <= MaxBuf},
          env \in E :
         \E data \in {ChunkAt(Len(client.sent), n)} :
         \E r \in {handle_transfer_chunk(fm, disk, data, env, env.unreadable)} :
             /\ env.kind = "ok" \/ r.hit
             /\ env.unreadable = {} \/ r.listed
             /\ fm' = r.fm
             /\ disk' = r.disk
             /\ notified' = r.notified
             /\ raised' = r.raised
             /\ last' = [op |-> "chunk", arg |-> data, io |-> env.kind,
                         fin |-> r.fin, client |-> client, fm |-> fm,
                         disk |-> disk]
             /\ client' = IF client = NoClient THEN client
                          ELSE IF r.fm.upload_key = None THEN NoClient
                          ELSE [client EXCEPT !.sent = @ \o data]
    /\ UNCHANGED <<running, mixer, midi_in, proc>>

\* SIGINT / SIGTERM: the tasks are cancelled and the process ends; the
\* upload state is dropped with it.
Shutdown ==
    /\ running
    /\ running' = FALSE
    /\ notified' = <<>>
    /\ raised' = "none"
    /\ last' = [op |-> "shutdown", arg |-> <<>>, io |-> "ok", fin |-> "none",
                client |-> client, fm |-> fm, disk |-> disk]
    /\ UNCHANGED <<fm, disk, client, progress, loader, now, mixer, midi_in, proc>>

\* The file transfer: a client that uploads and deletes, on an operating
\* system that may fail at every call.
OnWriteCommand ==
    /\ WriteCommand(TransferPayloads,
                    {Env("ok", 0, {}), Env("remove_fail", 0, {})})
    /\ UNCHANGED <<progress, loader, now>>

OnWriteChunk == WriteChunk(ChunkEnvs) /\ UNCHANGED <<progress, loader, now>>

Next == OnWriteCommand \/ OnWriteChunk \/ Shutdown

Spec == Init /\ [][Next]_vars

\* The command dispatcher: a client that writes any payload, on an operating
\* system that may fail when a file is removed or a directory listed.
OnWriteAnyCommand ==
    WriteCommand(Payloads, CommandEnvs) /\ UNCHANGED <<progress, loader, now>>

OnWriteChunkOk == WriteChunk(ListingEnvs) /\ UNCHANGED <<progress, loader, now>>

\* The progress throttle: a client that uploads in chunks of any length on
\* an operating system that never fails, the "receiving" notifications of
\* its session counted.
MaxProgress == 3

OnWriteCommandCounted ==
    /\ WriteCommand(TransferPayloads, {Env("ok", 0, {})})
    /\ progress' = IF notified' = <<notify_status([status |-> "ready"])>>
                   THEN 0 ELSE progress
    /\ UNCHANGED <<loader, now>>

OnWriteChunkCounted ==
    /\ WriteChunk({Env("ok", 0, {})})
    /\ progress' = IF /\ notified' # <<>>
                      /\ notified'[1].value.status = "receiving"
                   THEN progress + 1 ELSE progress
    /\ progress' <= MaxProgress
    /\ UNCHANGED <<loader, now>>

NextProgress == OnWriteCommandCounted \/ OnWriteChunkCounted \/ Shutdown

SpecProgress == Init /\ [][NextProgress]_vars

NextCommands == OnWriteAnyCommand \/ OnWriteChunkOk \/ Shutdown

SpecCommands == Init /\ [][NextCommands]_vars

\* The dispatcher under commands whose key is not the name of a slot: a key
\* that is a path out of the root, a key that names no slot; with them, the
\* commands of a well-behaved client.
EscapingPayloads ==
    {UploadCmd(UP_X, A_WAV, 1), UploadCmd(KEY13, A_WAV, 1),
     UploadCmd(K1, D_B_WAV, 1), DeleteCmd(UP_X, A_WAV), DeleteCmd(K1, B_WAV)}

OnWriteEscapingCommand ==
    WriteCommand(EscapingPayloads, {Env("ok", 0, {})})
    /\ UNCHANGED <<progress, loader, now>>

NextConfine == OnWriteEscapingCommand \/ OnWriteChunkOk

SpecConfine == Init /\ [][NextConfine]_vars

\* ------------------------------------------------- FileManager on any tree
\* Names a key directory may hold: eligible ones (one of them upper-case),
\* a hidden one and one with an unsupported extension.
B_MP3 == <<"b", ".", "m", "p", "3">>
UP_A_WAV == <<"A", ".", "W", "A", "V">>
HIDDEN_A_WAV == <<".">> \o A_WAV
A_MP == <<"a", ".", "m", "p">>
D_A_WAV == <<"d", "/">> \o A_WAV
K12 == KeyName(12)

SlotNames == {A_WAV, B_MP3, UP_A_WAV, HIDDEN_A_WAV, A_MP}

\* A directory holding the names S, every file one byte long.
DirOf(S) == [n \in S |-> <<1>>]

\* The trees FileManager is called on: Key1 absent or holding any of the
\* names, Key2 absent, empty or holding eligible names; Key3..Key12 absent.
FileTrees ==
    LET K1Dirs == {DirOf(S) : S \in SUBSET SlotNames}
        K2Dirs == {DirOf({}), DirOf({B_MP3}), DirOf({A_WAV, B_MP3})}
    IN  {<<>>} \cup {(K1 :> x) : x \in K1Dirs} \cup {(K2 :> y) : y \in K2Dirs}
        \cup {(K1 :> x) @@ (K2 :> y) : x \in K1Dirs, y \in K2Dirs}

\* on_read: the file list or the transfer status as the characteristic's
\* value, nothing for any other characteristic.
on_read(f, d, uuid, unreadable) ==
    IF uuid = "FILE_LIST" THEN list_all_files(d, unreadable)
    ELSE IF uuid = "TRANSFER_STATUS" THEN get_transfer_status(f)
    ELSE <<>>

InitFiles ==
    /\ fm = ResetState
    /\ disk \in FileTrees
    /\ notified = <<>>
    /\ raised = "none"
    /\ client = NoClient
    /\ last = [op |-> "init", arg |-> <<>>, io |-> "ok", ret |-> FALSE,
               disk |-> disk]
    /\ running = TRUE
    /\ progress = 0
    /\ loader = LoaderInit
    /\ now = StartTime
    /\ SamplerIdle

\* A call of FileManager.delete_file.
CallDelete ==
    /\ \E key \in {K1, K2, K12},
          filename \in SlotNames \cup {B_WAV, D_A_WAV},
          env \in {Env("ok", 0, {}), Env("remove_fail", 0, {})} :
         \E r \in {delete_file(disk, key, filename, env)} :
             /\ env.kind = "ok" \/ r.hit
             /\ disk' = r.disk
             /\ last' = [op |-> "delete_file",
                         arg |-> [key |-> key, filename |-> filename],
                         io |-> env.kind, ret |-> r.ret, disk |-> disk]
    /\ UNCHANGED <<fm, notified, raised, client, running, progress, loader, now,
                   mixer, midi_in, proc>>

\* A read of a characteristic (on_read), the listing of some key
\* directories failing with OSError.
OnRead ==
    /\ \E uuid \in {"FILE_LIST", "TRANSFER_STATUS", "FILE_COMMAND"},
          unreadable \in SUBSET {K1, K2} :
         /\ uuid = "FILE_LIST" \/ unreadable = {}
         /\ last' = [op |-> "read", arg |-> [uuid |-> uuid, unreadable |-> unreadable],
                     io |-> "ok", ret |-> on_read(fm, disk, uuid, unreadable),
                     disk |-> disk]
    /\ UNCHANGED <<fm, disk, notified, raised, client, running, progress, loader, now,
                   mixer, midi_in, proc>>

NextFiles == CallDelete \/ OnRead

SpecFiles == InitFiles /\ [][NextFiles]_vars

\* ------------------------------------------------------------ SampleLoader
\* self.scan_interval, in seconds.
scan_interval == 2

\* os.path.join(key_folder, f), relative to folder_path.
join(key, f) == key \o <<"/">> \o f

\* The filter of _find_sample_file (line 525): a supported extension.
ScanExt(f) == \E ext \in SUPPORTED_EXTENSIONS : EndsWith(Lower(f), ext)

NoFile == [path |-> None, mtime |-> 0]

\* _find_sample_file: (path, mtime) of the file with a supported extension
\* whose path sorts first, (None, 0) when the directory is missing, cannot
\* be listed or holds none.  A file of the tree is a record: its mtime and
\* whether pygame can load it.
find_sample_file(d, key, unreadable) ==
    IF ~isdir(d, key) \/ key \in unreadable
    THEN NoFile
    ELSE LET files == {f \in DOMAIN d[key] : ScanExt(f)}
         IN  IF files = {}
             THEN NoFile
             ELSE LET f == CHOOSE g \in files :
                              \A h \in files \ {g} : StrLess(join(key, g), join(key, h))
                  IN  [path |-> join(key, f), mtime |-> d[key][f].mtime]

\* pygame.mixer.Sound(path): the handle of the sound loaded from the file
\* as it is now.
Sound(cur) == [file |-> cur.path, mtime |-> cur.mtime]

\* The function c without the key n (dict.pop(n, None)).
pop(c, n) == [m \in (DOMAIN c) \ {n} |-> c[m]]

\* Mutant of scan_key: a loaded file is not entered in _file_cache.
ScanKeyForgets(st, d, i, unreadable) ==
    LET key == NOTE_MAPPING[i].key
        midi_note == NOTE_MAPPING[i].note
        cur == find_sample_file(d, key, unreadable)
        l == st.loader
        cached == midi_note \in DOMAIN l.file_cache
    IN  IF cur.path # None
        THEN IF ~cached \/ l.file_cache[midi_note] # cur
             THEN IF d[key][basename(cur.path)].loadable
                  THEN [st EXCEPT
                          !.loader.samples = (midi_note :> Sound(cur)) @@ l.samples,
                          !.changes = TRUE,
                          !.loads = Append(@, [path |-> cur.path, ok |-> TRUE])]
                  ELSE [st EXCEPT
                          !.loads = Append(@, [path |-> cur.path, ok |-> FALSE])]
             ELSE st
        ELSE IF cached
        THEN [st EXCEPT !.loader.samples = pop(l.samples, midi_note),
                        !.loader.file_cache = pop(l.file_cache, midi_note),
                        !.changes = TRUE,
                        !.removed = @ \cup {key}]
        ELSE st

\* Mutant of scan_key: a candidate that fails to load evicts the entry.
ScanKeyEvicts(st, d, i, unreadable) ==
    LET key == NOTE_MAPPING[i].key
        midi_note == NOTE_MAPPING[i].note
        cur == find_sample_file(d, key, unreadable)
        l == st.loader
        cached == midi_note \in DOMAIN l.file_cache
    IN  IF cur.path # None
        THEN IF ~cached \/ l.file_cache[midi_note] # cur
             THEN IF d[key][basename(cur.path)].loadable
                  THEN [st EXCEPT
                          !.loader.samples = (midi_note :> Sound(cur)) @@ l.samples,
                          !.loader.file_cache = (midi_note :> cur) @@ l.file_cache,
                          !.changes = TRUE,
                          !.loads = Append(@, [path |-> cur.path, ok |-> TRUE])]
                  ELSE [st EXCEPT
                          !.loader.samples = pop(l.samples, midi_note),
                          !.loader.file_cache = pop(l.file_cache, midi_note),
                          !.loads = Append(@, [path |-> cur.path, ok |-> FALSE])]
             ELSE st
        ELSE IF cached
        THEN [st EXCEPT !.loader.samples = pop(l.samples, midi_note),
                        !.loader.file_cache = pop(l.file_cache, midi_note),
                        !.changes = TRUE,
                        !.removed = @ \cup {key}]
        ELSE st

\* Mutant of scan_key: a removal does not set changes_detected.
ScanKeyRemovalSilent(st, d, i, unreadable) ==
    LET key == NOTE_MAPPING[i].key
        midi_note == NOTE_MAPPING[i].note
        cur == find_sample_file(d, key, unreadable)
        l == st.loader
        cached == midi_note \in DOMAIN l.file_cache
    IN  IF cur.path # None
        THEN IF ~cached \/ l.file_cache[midi_note] # cur
             THEN IF d[key][basename(cur.path)].loadable
                  THEN [st EXCEPT
                          !.loader.samples = (midi_note :> Sound(cur)) @@ l.samples,
                          !.loader.file_cache = (midi_note :> cur) @@ l.file_cache,
                          !.changes = TRUE,
                          !.loads = Append(@, [path |-> cur.path, ok |-> TRUE])]
                  ELSE [st EXCEPT
                          !.loads = Append(@, [path |-> cur.path, ok |-> FALSE])]
             ELSE st
        ELSE IF cached
        THEN [st EXCEPT !.loader.samples = pop(l.samples, midi_note),
                        !.loader.file_cache = pop(l.file_cache, midi_note),
                        !.removed = @ \cup {key}]
        ELSE st

\* One iteration of the loop of scan_and_update (lines 551-572), for the
\* i-th item of NOTE_MAPPING.  st carries the loader, changes_detected, the
\* loads attempted and the events printed so far.
scan_key(st, d, i, unreadable) ==
    LET key == NOTE_MAPPING[i].key
        midi_note == NOTE_MAPPING[i].note
        cur == find_sample_file(d, key, unreadable)
        l == st.loader
        cached == midi_note \in DOMAIN l.file_cache
    IN  IF cur.path # None
        THEN IF ~cached \/ l.file_cache[midi_note] # cur
             THEN IF d[key][basename(cur.path)].loadable
                  THEN [st EXCEPT
                          !.loader.samples = (midi_note :> Sound(cur)) @@ l.samples,
                          !.loader.file_cache = (midi_note :> cur) @@ l.file_cache,
                          !.changes = TRUE,
                          !.loads = Append(@, [path |-> cur.path, ok |-> TRUE])]
                  ELSE [st EXCEPT
                          !.loads = Append(@, [path |-> cur.path, ok |-> FALSE])]
             ELSE st
        ELSE IF cached
        THEN [st EXCEPT !.loader.samples = pop(l.samples, midi_note),
                        !.loader.file_cache = pop(l.file_cache, midi_note),
                        !.changes = TRUE,
                        !.removed = @ \cup {key}]
        ELSE st

RECURSIVE scan_from(_, _, _, _)
scan_from(st, d, i, unreadable) ==
    IF i > Len(NOTE_MAPPING) THEN st
    ELSE CHOOSE r \in {scan_from(nx, d, i + 1, unreadable) :
                         nx \in {scan_key(st, d, i, unreadable)}} : TRUE

\* Mutant of scan_and_update: a scan that runs does not record its time.
ScanForgetsTime(l, d, t, forced, unreadable) ==
    IF ~forced /\ t - l.last_scan_time < scan_interval
    THEN [loader |-> l, ret |-> FALSE, ran |-> FALSE, loads |-> <<>>,
          removed |-> {}]
    ELSE LET st == scan_from([loader |-> l,
                              changes |-> FALSE, loads |-> <<>>, removed |-> {}],
                             d, 1, unreadable)
         IN  [loader |-> st.loader, ret |-> st.changes, ran |-> TRUE,
              loads |-> st.loads, removed |-> st.removed]

\* scan_and_update at time t, forced when on_progress is given.
scan_and_update(l, d, t, forced, unreadable) ==
    IF ~forced /\ t - l.last_scan_time < scan_interval
    THEN [loader |-> l, ret |-> FALSE, ran |-> FALSE, loads |-> <<>>,
          removed |-> {}]
    ELSE LET st == scan_from([loader |-> [l EXCEPT !.last_scan_time = t],
                              changes |-> FALSE, loads |-> <<>>, removed |-> {}],
                             d, 1, unreadable)
         IN  [loader |-> st.loader, ret |-> st.changes, ran |-> TRUE,
              loads |-> st.loads, removed |-> st.removed]

\* ------------------------------------------------- SampleLoader on any tree
\* A file with modification time m that pygame can load (ok) or not.
File(m, ok) == [mtime |-> m, loadable |-> ok]

\* Every directory whose names are a subset of DOMAIN opts, the file of name
\* n one of opts[n].
DirsOver(opts) ==
    UNION {{f \in [S -> UNION {opts[n] : n \in S}] : \A n \in S : f[n] \in opts[n]}
             : S \in SUBSET DOMAIN opts}

\* The trees the loader scans: Key1 absent or holding a.wav and b.wav, each
\* in an older or a newer version or corrupt, and a hidden .a.wav; Key2
\* absent or holding b.mp3 and a file that is not audio.
LoaderTrees ==
    LET Versions == {File(1, TRUE), File(2, TRUE), File(1, FALSE)}
        K1Dirs == DirsOver((A_WAV :> Versions) @@ (B_WAV :> Versions)
                           @@ (HIDDEN_A_WAV :> {File(1, TRUE)}))
        K2Dirs == DirsOver((B_MP3 :> {File(1, TRUE)}) @@ (A_MP :> {File(1, TRUE)}))
    IN  {<<>>} \cup {(K1 :> x) : x \in K1Dirs} \cup {(K2 :> y) : y \in K2Dirs}
        \cup {(K1 :> x) @@ (K2 :> y) : x \in K1Dirs, y \in K2Dirs}

\* The loader with the entries of `cache` (note -> (path, mtime)), each
\* loaded, last scanned at time t.
Indexed(cache, t) ==
    [samples |-> [n \in DOMAIN cache |-> Sound(cache[n])],
     file_cache |-> cache, last_scan_time |-> t]

\* The index states a scan may start from: as constructed, or as earlier
\* scans left it on an earlier tree.
PriorLoaders ==
    LET C1 == {<<>>} \cup {(50 :> [path |-> join(K1, f), mtime |-> m]) :
                             f \in {A_WAV, B_WAV}, m \in {1, 2}}
                     \cup {(50 :> [path |-> join(K1, HIDDEN_A_WAV), mtime |-> 1])}
        C2 == {<<>>, (51 :> [path |-> join(K2, B_MP3), mtime |-> 1])}
    IN  {LoaderInit}
        \cup {Indexed(c1 @@ c2, t) : c1 \in C1, c2 \in C2,
                                     t \in {StartTime - scan_interval, StartTime}}

\* How long the clock is followed.
MaxTicks == 2

InitScan ==
    /\ fm = ResetState
    /\ disk \in LoaderTrees
    /\ notified = <<>>
    /\ raised = "none"
    /\ client = NoClient
    /\ loader \in PriorLoaders
    /\ last = [op |-> "init", forced |-> FALSE, ret |-> FALSE, ran |-> FALSE,
               loads |-> <<>>, removed |-> {}, settled |-> FALSE,
               loader |-> loader, disk |-> disk,
               at |-> loader.last_scan_time, prev |-> loader.last_scan_time,
               first |-> FALSE]
    /\ running = TRUE
    /\ progress = 0
    /\ now = StartTime
    /\ SamplerIdle

\* A call of scan_and_update, with on_progress (forced) or without.
\* last.settled: the index the call started from is as a scan that ran left
\* it, on the tree as it still is.  last.at: the time of the call; last.prev:
\* the time of the last scan that ran before it; last.first: it is the first
\* call on a loader just constructed.
Rescan ==
    /\ \E forced \in BOOLEAN :
         \E r \in {scan_and_update(loader, disk, now, forced, {})} :
             /\ loader' = r.loader
             /\ last' = [op |-> "scan", forced |-> forced, ret |-> r.ret,
                         ran |-> r.ran, loads |-> r.loads, removed |-> r.removed,
                         settled |-> last.op = "scan" /\ (last.ran \/ last.settled),
                         loader |-> loader, disk |-> disk,
                         at |-> now,
                         prev |-> IF last.ran THEN last.at ELSE last.prev,
                         first |-> last.op = "init" /\ loader = LoaderInit]
    /\ UNCHANGED <<fm, disk, notified, raised, client, running, progress, now,
                   mixer, midi_in, proc>>

\* A second passes.
Tick ==
    /\ now < StartTime + MaxTicks
    /\ now' = now + 1
    /\ UNCHANGED <<fm, disk, notified, raised, client, last, running, progress,
                   loader, mixer, midi_in, proc>>

NextScan == Rescan \/ Tick

SpecScan == InitScan /\ [][NextScan]_vars


\* ================================================================ playback
\* NOTE_TO_KEY: the reverse of NOTE_MAPPING, on the notes that are mapped.
NOTE_TO_KEY ==
    [n \in {NOTE_MAPPING[i].note : i \in DOMAIN NOTE_MAPPING} |->
       NOTE_MAPPING[CHOOSE i \in DOMAIN NOTE_MAPPING : NOTE_MAPPING[i].note = n].key]

STOP_KEY_NAME == KeyName(1)

\* No message: what poll returns when nothing was read or the event is
\* neither a note-on nor a note-off.
NoMsg == [type |-> "none", note |-> 0, velocity |-> 0, channel |-> 0]

MidiMessage(type, note, velocity, channel) ==
    [type |-> type, note |-> note, velocity |-> velocity, channel |-> channel]

\* PygameMidiWrapper.poll on the event read: status & 0xF0 tells note-on
\* (0x90) from note-off (0x80), status & 0x0F is the channel; any other
\* event is dropped.
poll(ev) ==
    LET msg_type == ev.status - (ev.status % 16)
        channel == ev.status % 16
    IN  IF msg_type = 144 THEN MidiMessage("note_on", ev.data1, ev.data2, channel)
        ELSE IF msg_type = 128
             THEN MidiMessage("note_off", ev.data1, ev.data2, channel)
             ELSE NoMsg

\* SampleLoader.get_sample.
get_sample(l, midi_note) ==
    IF midi_note \in DOMAIN l.samples THEN l.samples[midi_note] ELSE NoSound

\* The channel the sampler plays on: pygame.mixer.Channel(0).
current_channel == 0

get_busy(mx, c) == mx[c] # NoSound

\* Channel.stop and Channel.play.
stop(mx, c) == [mx EXCEPT ![c] = NoSound]
play(mx, c, sound) == [mx EXCEPT ![c] = sound]

\* Sound.play(): the sound starts on a channel that is idle, if there is one.
sound_play(mx, sound) ==
    IF \E c \in DOMAIN mx : ~get_busy(mx, c)
    THEN play(mx, CHOOSE c \in DOMAIN mx : ~get_busy(mx, c), sound)
    ELSE mx

\* What handle_midi_message leaves: the mixer, what it did, what it raised.
Handled(mx, did, exc) == [mixer |-> mx, did |-> did, raised |-> exc]

\* Mutant of handle_midi_message: the stop slot is played like any other.
HandleStopSlotPlays(msg, l, mx, play_fails) ==
    IF msg.type \notin {"note_on", "note_off"} THEN Handled(mx, "none", "none")
    ELSE IF msg.type = "note_on" /\ msg.velocity > 0
         THEN IF msg.note \in DOMAIN NOTE_TO_KEY
              THEN LET sound == get_sample(l, msg.note)
                       stopped == IF get_busy(mx, current_channel)
                                  THEN stop(mx, current_channel) ELSE mx
                   IN  IF sound # NoSound
                       THEN IF play_fails
                            THEN Handled(stopped, "play", "pygame.error")
                            ELSE Handled(play(stopped, current_channel, sound),
                                         "play", "none")
                       ELSE Handled(mx, "skip", "none")
              ELSE Handled(mx, "skip", "none")
         ELSE Handled(mx, "none", "none")

\* Mutant of handle_midi_message: a note-off, or a note-on of velocity 0,
\* of a mapped note silences the channel.
HandleNoteOffStops(msg, l, mx, play_fails) ==
    IF msg.type \notin {"note_on", "note_off"} THEN Handled(mx, "none", "none")
    ELSE IF msg.type = "note_on" /\ msg.velocity > 0
         THEN IF msg.note \in DOMAIN NOTE_TO_KEY
              THEN LET key_name == NOTE_TO_KEY[msg.note]
                       sound == get_sample(l, msg.note)
                       stopped == IF get_busy(mx, current_channel)
                                  THEN stop(mx, current_channel) ELSE mx
                   IN  IF key_name = STOP_KEY_NAME
                       THEN Handled(stopped, "stop", "none")
                       ELSE IF sound # NoSound
                            THEN IF play_fails
                                 THEN Handled(stopped, "play", "pygame.error")
                                 ELSE Handled(play(stopped, current_channel, sound),
                                              "play", "none")
                            ELSE Handled(mx, "skip", "none")
              ELSE Handled(mx, "skip", "none")
         ELSE IF msg.note \in DOMAIN NOTE_TO_KEY
              THEN Handled(stop(mx, current_channel), "stop", "none")
              ELSE Handled(mx, "none", "none")

\* Mutant of handle_midi_message: the sound is started with Sound.play(),
\* on whichever channel is idle, and what is playing is not stopped.
HandlePolyphonic(msg, l, mx, play_fails) ==
    IF msg.type \notin {"note_on", "note_off"} THEN Handled(mx, "none", "none")
    ELSE IF msg.type = "note_on" /\ msg.velocity > 0
         THEN IF msg.note \in DOMAIN NOTE_TO_KEY
              THEN LET key_name == NOTE_TO_KEY[msg.note]
                       sound == get_sample(l, msg.note)
                       stopped == IF get_busy(mx, current_channel)
                                  THEN stop(mx, current_channel) ELSE mx
                   IN  IF key_name = STOP_KEY_NAME
                       THEN Handled(stopped, "stop", "none")
                       ELSE IF sound # NoSound
                            THEN IF play_fails
                                 THEN Handled(mx, "play", "pygame.error")
                                 ELSE Handled(sound_play(mx, sound), "play", "none")
                            ELSE Handled(mx, "skip", "none")
              ELSE Handled(mx, "skip", "none")
         ELSE Handled(mx, "none", "none")

\* Mutant of handle_midi_message: the stop slot silences the channel and
\* then starts its own sample, when it has one.
HandleStopThenPlays(msg, l, mx, play_fails) ==
    IF msg.type \notin {"note_on", "note_off"} THEN Handled(mx, "none", "none")
    ELSE IF msg.type = "note_on" /\ msg.velocity > 0
         THEN IF msg.note \in DOMAIN NOTE_TO_KEY
              THEN LET key_name == NOTE_TO_KEY[msg.note]
                       sound == get_sample(l, msg.note)
                       stopped == IF get_busy(mx, current_channel)
                                  THEN stop(mx, current_channel) ELSE mx
                   IN  IF key_name = STOP_KEY_NAME /\ sound = NoSound
                       THEN Handled(stopped, "stop", "none")
                       ELSE IF sound # NoSound
                            THEN IF play_fails
                                 THEN Handled(stopped, "play", "pygame.error")
                                 ELSE Handled(play(stopped, current_channel, sound),
                                              "play", "none")
                            ELSE Handled(mx, "skip", "none")
              ELSE Handled(mx, "skip", "none")
         ELSE Handled(mx, "none", "none")

\* handle_midi_message(msg, loader) on mixer mx; play_fails: Channel.play
\* raises pygame.error.
handle_midi_message(msg, l, mx, play_fails) ==
    IF msg.type \notin {"note_on", "note_off"} THEN Handled(mx, "none", "none")
    ELSE IF msg.type = "note_on" /\ msg.velocity > 0
         THEN IF msg.note \in DOMAIN NOTE_TO_KEY
              THEN LET key_name == NOTE_TO_KEY[msg.note]
                       sound == get_sample(l, msg.note)
                       stopped == IF get_busy(mx, current_channel)
                                  THEN stop(mx, current_channel) ELSE mx
                   IN  IF key_name = STOP_KEY_NAME
                       THEN Handled(stopped, "stop", "none")
                       ELSE IF sound # NoSound
                            THEN IF play_fails
                                 THEN Handled(stopped, "play", "pygame.error")
                                 ELSE Handled(play(stopped, current_channel, sound),
                                              "play", "none")
                            ELSE Handled(mx, "skip", "none")
              ELSE Handled(mx, "skip", "none")
         ELSE Handled(mx, "none", "none")

\* ------------------------------------------------ playback on any index
\* The trees of the playback: Key1 (the stop slot) with a sample or not,
\* Key2 without a sample or with b.mp3 in an older or a newer version.
PlayTrees ==
    {DirOf1 @@ DirOf2 :
       DirOf1 \in {<<>>, (K1 :> (A_WAV :> File(1, TRUE)))},
       DirOf2 \in {<<>>, (K2 :> (B_MP3 :> File(1, TRUE))),
                   (K2 :> (B_MP3 :> File(2, TRUE)))}}

\* The events the MIDI input delivers: note-on on channel 0 or 1, note-off,
\* control change; for the stop slot's note, a slot with a sample, a slot
\* without, and a note that is not mapped; velocity 0 or not.
RawEvents ==
    [status : {144, 145, 128, 176}, data1 : {50, 51, 52, 62}, data2 : {0, 100}]

\* The sampler scan_interval after its start: the index as the first scan
\* left it on some tree, the tree as it is now, nothing playing.
InitPlay ==
    /\ fm = ResetState
    /\ disk \in PlayTrees
    /\ notified = <<>>
    /\ raised = "none"
    /\ client = NoClient
    /\ loader \in {scan_and_update(LoaderInit, d, StartTime - scan_interval,
                                    TRUE, {}).loader : d \in PlayTrees}
    /\ last = [op |-> "init", event |-> [status |-> 0, data1 |-> 0, data2 |-> 0],
               msg |-> NoMsg, did |-> "none", raised |-> "none",
               mixer |-> MixerInit, loader |-> loader]
    /\ running = TRUE
    /\ progress = 0
    /\ now = StartTime
    /\ SamplerIdle

\* An event is polled and handled (the first half of a tick of the loop).
NoteEvent ==
    /\ \E ev \in RawEvents, play_fails \in BOOLEAN :
         LET msg == poll(ev)
         IN  \E h \in {IF msg # NoMsg
                       THEN handle_midi_message(msg, loader, mixer, play_fails)
                       ELSE Handled(mixer, "none", "none")} :
                /\ play_fails => h.raised # "none"
                /\ mixer' = h.mixer
                /\ last' = [op |-> "note", event |-> ev, msg |-> msg,
                            did |-> h.did, raised |-> h.raised,
                            mixer |-> mixer, loader |-> loader]
    /\ UNCHANGED <<fm, disk, notified, raised, client, running, progress, loader,
                   now, midi_in, proc>>

\* The sound that plays on a channel comes to its end.
SoundEnds ==
    /\ \E c \in DOMAIN mixer :
         /\ get_busy(mixer, c)
         /\ mixer' = stop(mixer, c)
    /\ last' = [last EXCEPT !.op = "ends"]
    /\ UNCHANGED <<fm, disk, notified, raised, client, running, progress,
                   loader, now, midi_in, proc>>

\* The rescan of a tick of the loop (the second half of the tick).
LoopRescan ==
    /\ \E r \in {scan_and_update(loader, disk, now, FALSE, {})} :
         /\ r.ran
         /\ loader' = r.loader
         /\ last' = [op |-> "scan", event |-> [status |-> 0, data1 |-> 0, data2 |-> 0],
                     msg |-> NoMsg, did |-> "none", raised |-> "none",
                     mixer |-> mixer, loader |-> loader]
    /\ UNCHANGED <<fm, disk, notified, raised, client, running, progress, now,
                   mixer, midi_in, proc>>

\* The uploads that finish while the sampler runs: a.wav for the stop slot,
\* b.mp3 for Key2.
StoredUploads == {<<K1, A_WAV>>, <<K2, B_MP3>>}

\* The server finishes an upload: finalize_upload creates the directory of
\* the key if need be and writes the file, which the sampler then finds with
\* the time of the write as its mtime.
UploadStored ==
    /\ \E u \in StoredUploads :
         /\ ~(isfile(disk, u[1], u[2]) /\ disk[u[1]][u[2]] = File(now, TRUE))
         /\ disk' = WriteFile(makedirs(disk, u[1]), u[1], u[2], File(now, TRUE))
    /\ last' = [last EXCEPT !.op = "upload"]
    /\ UNCHANGED <<fm, notified, raised, client, running, progress, loader, now,
                   mixer, midi_in, proc>>

NextPlay == NoteEvent \/ SoundEnds \/ LoopRescan \/ UploadStored

SpecPlay == InitPlay /\ [][NextPlay]_vars


\* ============================================================ the process
\* How many events the MIDI input delivers, how many it holds, and how many
\* signals are sent.
MaxEvents == 2
MaxQueue == 1
MaxSignals == 2

Programs == {"carlbox_server", "midi_sampler"}

\* The process of program prog before its main() has initialised anything.
ProcInit(prog) ==
    [prog |-> prog, pc |-> "start", fatal |-> FALSE, failed |-> FALSE,
     cleanup_done |-> FALSE, ret |-> "none",
     port_open |-> FALSE, mixer_init |-> FALSE, pin_exported |-> FALSE,
     closes |-> 0, quits |-> 0, releases |-> 0,
     signals |-> 0, arrived |-> 0, polled |-> 0]

\* The events the MIDI input delivers to the loop: the stop slot, a slot
\* with a sample and a control change.
LoopEvents ==
    {[status |-> 144, data1 |-> 50, data2 |-> 100],
     [status |-> 144, data1 |-> 51, data2 |-> 100],
     [status |-> 176, data1 |-> 51, data2 |-> 100]}

LoopTrees ==
    {(K1 :> (A_WAV :> File(1, TRUE))) @@ (K2 :> (B_MP3 :> File(1, TRUE))),
     (K2 :> (B_MP3 :> File(2, TRUE)))}

\* Where control goes when cleanup_resources() returns to its caller: the
\* signal handler and the fatal-startup path go on to sys.exit(), which in
\* midi_sampler.main unwinds through the finally block; the finally block
\* is the last thing the process does.
Return(p, caller) ==
    IF caller = "finally" THEN "exited"
    ELSE IF p.prog = "midi_sampler" THEN "finally" ELSE "exited"

\* Mutant of on_tick_error: the exception ends the loop.
TickErrorEnds(p) == [p EXCEPT !.pc = "finally", !.failed = TRUE]

\* The except clause of the loop: the error is logged and the loop backs off.
on_tick_error(p) == [p EXCEPT !.pc = "backoff", !.failed = TRUE]

InitLoop ==
    /\ fm = ResetState
    /\ disk \in LoopTrees
    /\ notified = <<>>
    /\ raised = "none"
    /\ client = NoClient
    /\ loader = LoaderInit
    /\ last = [op |-> "init", msg |-> NoMsg, did |-> "none", raised |-> "none",
               loader |-> loader]
    /\ running = TRUE
    /\ progress = 0
    /\ now = StartTime
    /\ mixer = MixerInit
    /\ midi_in = <<>>
    /\ proc \in {ProcInit(prog) : prog \in Programs}

\* main() up to the loop: the mixer and the MIDI input are initialised
\* (midi_sampler also exports the amplifier pin, before the mixer), the
\* samples are loaded; without audio or without a MIDI device the process
\* cleans up and exits.
Startup ==
    /\ proc.pc = "start"
    /\ \E outcome \in {"ok", "no_audio", "no_midi"},
          r \in {scan_and_update(loader, disk, now, proc.prog = "midi_sampler", {})} :
         LET amp == proc.prog = "midi_sampler"
         IN  IF outcome = "ok"
             THEN /\ proc' = [proc EXCEPT !.pc = "loop", !.port_open = TRUE,
                                          !.mixer_init = TRUE, !.pin_exported = amp]
                  /\ loader' = r.loader
             ELSE /\ proc' = [proc EXCEPT !.pc = "fatal", !.fatal = TRUE,
                                          !.mixer_init = (outcome = "no_midi"),
                                          !.pin_exported = amp]
                  /\ loader' = loader
    /\ last' = [last EXCEPT !.op = "start"]
    /\ UNCHANGED <<fm, disk, notified, raised, client, running, progress, now,
                   mixer, midi_in>>

\* An event reaches the MIDI input.
MidiArrives ==
    /\ proc.pc \in {"loop", "backoff"}
    /\ proc.arrived < MaxEvents
    /\ Len(midi_in) < MaxQueue
    /\ \E ev \in LoopEvents : midi_in' = Append(midi_in, ev)
    /\ proc' = [proc EXCEPT !.arrived = @ + 1]
    /\ UNCHANGED <<fm, disk, notified, raised, client, last, running, progress,
                   loader, now, mixer>>

\* One tick of the loop: an event is polled and handled, the samples are
\* rescanned; an exception in either is caught by the loop.
LoopTick ==
    /\ proc.pc = "loop"
    /\ \E play_fails \in BOOLEAN, scan_fails \in BOOLEAN,
          got \in {midi_in # <<>>},
          r \in {scan_and_update(loader, disk, now, FALSE, {})} :
         LET msg == IF got THEN poll(Head(midi_in)) ELSE NoMsg
             p == [proc EXCEPT !.polled = IF got THEN @ + 1 ELSE @]
             h == IF msg # NoMsg
                  THEN handle_midi_message(msg, loader, mixer, play_fails)
                  ELSE Handled(mixer, "none", "none")
         IN  /\ play_fails => h.raised # "none"
             /\ scan_fails => h.raised = "none" /\ r.ran
             /\ midi_in' = IF got THEN Tail(midi_in) ELSE midi_in
             /\ mixer' = h.mixer
             /\ IF h.raised # "none"
                THEN /\ loader' = loader
                     /\ proc' = on_tick_error(p)
                     /\ last' = [op |-> "tick", msg |-> msg, did |-> h.did,
                                 raised |-> h.raised, loader |-> loader]
                ELSE IF scan_fails
                     THEN /\ loader' = [loader EXCEPT !.last_scan_time = now]
                          /\ proc' = on_tick_error(p)
                          /\ last' = [op |-> "tick", msg |-> msg, did |-> h.did,
                                      raised |-> "Exception", loader |-> loader]
                     ELSE /\ loader' = r.loader
                          /\ proc' = p
                          /\ last' = [op |-> "tick", msg |-> msg, did |-> h.did,
                                      raised |-> "none", loader |-> loader]
    /\ UNCHANGED <<fm, disk, notified, raised, client, running, progress, now>>

\* The sleep after an error is over.
Backoff ==
    /\ proc.pc = "backoff"
    /\ proc' = [proc EXCEPT !.pc = "loop"]
    /\ last' = [last EXCEPT !.op = "backoff", !.loader = loader]
    /\ UNCHANGED <<fm, disk, notified, raised, client, running, progress, loader,
                   now, mixer, midi_in>>

\* SIGINT or SIGTERM.  carlbox_server: _shutdown cancels the tasks, the
\* loop ends at its await and main goes to its finally block, where it
\* awaits ble_server.stop(); a signal that comes during that await cancels
\* the task again and the rest of the finally block is not run.
\* midi_sampler: signal_handler calls cleanup_resources() and sys.exit(0),
\* wherever the program is; when it comes during cleanup_resources() the
\* call in the handler returns at once and sys.exit(0) abandons the
\* call that was under way.
Signal ==
    /\ proc.signals < MaxSignals
    /\ IF proc.prog = "carlbox_server"
       THEN /\ proc.pc \in {"loop", "backoff", "stopping"}
            /\ proc' = [proc EXCEPT !.signals = @ + 1,
                                    !.pc = IF proc.pc = "stopping" THEN "exited"
                                           ELSE "stopping"]
       ELSE /\ proc.pc \in {"loop", "backoff", "handler", "fatal", "finally",
                            "port", "mixer", "pin"}
            /\ proc' = [proc EXCEPT !.signals = @ + 1,
                                    !.pc = IF ~proc.cleanup_done THEN "handler"
                                           ELSE IF proc.pc = "finally" THEN "exited"
                                           ELSE "finally"]
    /\ last' = [op |-> "signal", msg |-> NoMsg, did |-> "none", raised |-> "none",
                loader |-> loader]
    /\ UNCHANGED <<fm, disk, notified, raised, client, running, progress, loader,
                   now, mixer, midi_in>>

\* carlbox_server: ble_server.stop() returns.
BleStopped ==
    /\ proc.pc = "stopping"
    /\ proc' = [proc EXCEPT !.pc = "finally"]
    /\ UNCHANGED <<fm, disk, notified, raised, client, last, running, progress,
                   loader, now, mixer, midi_in>>

\* cleanup_resources() is called, from the signal handler, from a finally
\* block or from the fatal-startup path: it returns at once when it was
\* called before.
CleanupCall ==
    /\ proc.pc \in {"handler", "finally", "fatal"}
    /\ proc' = IF proc.cleanup_done
               THEN [proc EXCEPT !.pc = Return(proc, proc.pc)]
               ELSE [proc EXCEPT !.cleanup_done = TRUE, !.ret = proc.pc,
                                 !.pc = "port"]
    /\ UNCHANGED <<fm, disk, notified, raised, client, last, running, progress,
                   loader, now, mixer, midi_in>>

\* cleanup_resources(), step 2: the MIDI port is closed.
CleanupPort ==
    /\ proc.pc = "port"
    /\ proc' = IF proc.port_open
               THEN [proc EXCEPT !.port_open = FALSE, !.closes = @ + 1,
                                 !.pc = "mixer"]
               ELSE [proc EXCEPT !.pc = "mixer"]
    /\ UNCHANGED <<fm, disk, notified, raised, client, last, running, progress,
                   loader, now, mixer, midi_in>>

\* cleanup_resources(), steps 3 to 5: the mixer is quit.
CleanupMixer ==
    /\ proc.pc = "mixer"
    /\ proc' = IF proc.mixer_init
               THEN [proc EXCEPT !.mixer_init = FALSE, !.quits = @ + 1,
                                 !.pc = "pin"]
               ELSE [proc EXCEPT !.pc = "pin"]
    /\ mixer' = MixerInit
    /\ UNCHANGED <<fm, disk, notified, raised, client, last, running, progress,
                   loader, now, midi_in>>

\* cleanup_resources(), step 6: the amplifier pin is released; the call
\* returns.
CleanupPin ==
    /\ proc.pc = "pin"
    /\ proc' = IF proc.pin_exported
               THEN [proc EXCEPT !.pin_exported = FALSE, !.releases = @ + 1,
                                 !.pc = Return(proc, proc.ret)]
               ELSE [proc EXCEPT !.pc = Return(proc, proc.ret)]
    /\ UNCHANGED <<fm, disk, notified, raised, client, last, running, progress,
                   loader, now, mixer, midi_in>>

\* What the program does by itself.
Step ==
    \/ Startup
    \/ LoopTick
    \/ Backoff
    \/ BleStopped
    \/ CleanupCall
    \/ CleanupPort
    \/ CleanupMixer
    \/ CleanupPin

\* A second passes while the loop runs.
LoopClock == proc.pc \in {"loop", "backoff"} /\ Tick

NextLoop == Step \/ MidiArrives \/ Signal \/ LoopClock

SpecLoop == InitLoop /\ [][NextLoop]_vars

\* The interpreter and the event loop go on running the program: each of
\* its steps is taken when it stays possible.
SpecLoopFair == SpecLoop /\ WF_vars(Step)

\* ============================================================== properties
HasFile(d, key, name) == key \in DOMAIN d /\ name \in DOMAIN d[key]

\* b is the base component of the path p: the part of p after its last "/".
IsBaseOf(b, p) ==
    /\ \A i \in DOMAIN b : b[i] # "/"
    /\ \E k \in 0..Len(p) :
         /\ SubSeq(p, k + 1, Len(p)) = b
         /\ k > 0 => p[k] = "/"

\* The base component of p, from its definition.
TheBase(p) ==
    CHOOSE b \in {SubSeq(p, k + 1, Len(p)) : k \in 0..Len(p)} : IsBaseOf(b, p)

\* The last callback was a raw chunk written while a session was under way.
ChunkInSession == last.op = "chunk" /\ last.client # NoClient

\* The bytes the client had delivered to its session when the last callback
\* returned.
Delivered == last.client.sent \o last.arg

\* Trees d and e differ at most in the file key/name and in whether the
\* directory key exists.
SameExceptFile(d, e, key, name) ==
    /\ DOMAIN e \in {DOMAIN d, DOMAIN d \cup {key}}
    /\ \A k \in DOMAIN e :
         /\ k # key => e[k] = d[k]
         /\ \A n \in DOMAIN e[k] :
              <<k, n>> # <<key, name>> => HasFile(d, k, n) /\ e[k][n] = d[k][n]
    /\ \A k \in DOMAIN d : \A n \in DOMAIN d[k] :
         <<k, n>> # <<key, name>> => HasFile(e, k, n)

\* ---------------------------------------------------------------------- C1
\* C1 (as claimed): after begin_upload(slot, name, N) and chunks of total
\* length exactly N delivered in order, with every operating-system call
\* succeeding, the completing chunk leaves a file named by the base component
\* of name in the slot's directory whose contents are the delivered bytes.
C1_RoundTrip ==
    ( /\ ChunkInSession
      /\ Len(last.client.sent) < last.client.size
      /\ Len(Delivered) = last.client.size
      /\ last.io = "ok" )
    => /\ HasFile(disk, last.client.key, TheBase(last.client.filename))
       /\ disk[last.client.key][TheBase(last.client.filename)] = Delivered

\* ---------------------------------------------------------------------- C3
\* C3 (as claimed): whenever a chunk made the session complete, so that
\* finalize_upload was called, the session is Idle afterwards whatever the
\* outcome: no upload in progress, buffer and expected size cleared.
C3_FinalizeResets ==
    (last.op = "chunk" /\ last.fin # "none")
    => /\ fm.upload_key = None
       /\ fm.upload_buffer = <<>>
       /\ fm.upload_expected_size = 0

\* ---------------------------------------------------------------------- C2
\* The last callback was a command object with this action.
IsCommand(action) ==
    /\ last.op = "command"
    /\ last.arg.kind = "object"
    /\ "action" \in DOMAIN last.arg.fields
    /\ last.arg.fields.action = action

\* C2: only a fully received session touches disk.  No callback other than a
\* delete command changes the sample tree, except a chunk that brings the
\* bytes delivered to a session to at least the size it announced; that
\* chunk changes nothing but the session's own file (and creates its
\* directory), and what it writes is taken from the whole buffer: all of it
\* when finalize reports success, a leading part of it when the write
\* failed.  So begin, an incomplete chunk and a shutdown write nothing.
C2_OnlyCompleteSessionWrites ==
    \/ disk = last.disk
    \/ IsCommand("delete")
    \/ /\ ChunkInSession
       /\ Len(Delivered) >= last.client.size
       /\ LET key == last.client.key
              name == TheBase(last.client.filename)
          IN  /\ SameExceptFile(last.disk, disk, key, name)
              /\ HasFile(disk, key, name) =>
                   \/ HasFile(last.disk, key, name)
                        /\ disk[key][name] = last.disk[key][name]
                   \/ \E n \in 0..Len(Delivered) :
                        disk[key][name] = SubSeq(Delivered, 1, n)
              /\ last.fin = "true" =>
                   HasFile(disk, key, name) /\ disk[key][name] = Delivered

\* A session of two bytes or more was received in full, in two chunks, and
\* its file written.
C2_Witness ==
    /\ ChunkInSession
    /\ last.fin = "true"
    /\ last.client.size >= 2
    /\ last.client.sent # <<>>
    /\ disk # last.disk
    /\ HasFile(disk, last.client.key, TheBase(last.client.filename))

\* ---------------------------------------------------------------------- C4
\* C4: last begin wins.  A session in progress is always the one of the
\* client's latest begin: its key, the base component of its file name and
\* its size, and its buffer holds exactly the bytes sent since that begin
\* (empty right after it, whatever an earlier session had buffered).  A chunk
\* changes no file but that session's, so nothing is written under the name
\* of a session that was overridden, and a successful finalize leaves in the
\* file exactly the bytes sent since that begin.
C4_LastBeginWins ==
    /\ fm.upload_key # None =>
         /\ fm.upload_key = client.key
         /\ IsBaseOf(fm.upload_filename, client.filename)
         /\ fm.upload_expected_size = client.size
         /\ fm.upload_buffer = client.sent
    /\ (IsCommand("upload") /\ notified[1].value.status = "ready") =>
         /\ fm.upload_key # None
         /\ fm.upload_buffer = <<>>
         /\ client.sent = <<>>
    /\ last.op = "chunk" =>
         \/ disk = last.disk
         \/ SameExceptFile(last.disk, disk, last.client.key,
                           TheBase(last.client.filename))
    /\ (last.op = "chunk" /\ last.fin = "true") =>
         /\ HasFile(disk, last.client.key, TheBase(last.client.filename))
         /\ disk[last.client.key][TheBase(last.client.filename)] = Delivered

\* A begin for another key and file name arrived while a session was
\* Receiving with bytes buffered.
C4_Witness ==
    /\ IsCommand("upload")
    /\ notified = <<notify_status([status |-> "ready"])>>
    /\ last.fm.upload_key # None
    /\ last.fm.upload_buffer # <<>>
    /\ last.client.key # client.key
    /\ TheBase(last.client.filename) # TheBase(client.filename)
    /\ fm.upload_buffer = <<>>

\* ---------------------------------------------------------------------- C5
\* C5: over-delivery.  A session that is short of its size N finalizes on
\* exactly the chunk that brings the bytes delivered to N or more (a chunk
\* that leaves them below N finalizes nothing and keeps the session
\* Receiving); when that chunk carries K > 0 bytes beyond N, the file a
\* successful finalize writes holds all N+K bytes delivered, and finalize
\* succeeds whenever the operating system does and the name is usable.
C5_OverDelivery ==
    (ChunkInSession /\ Len(last.client.sent) < last.client.size) =>
       LET N == last.client.size
           key == last.client.key
           name == TheBase(last.client.filename)
       IN  /\ Len(Delivered) < N =>
                /\ last.fin = "none"
                /\ fm.upload_key # None
                /\ fm.upload_buffer = Delivered
           /\ Len(Delivered) >= N => last.fin # "none"
           /\ Len(Delivered) > N =>
                /\ (last.io = "ok" /\ name # <<>>) => last.fin = "true"
                /\ last.fin = "true" =>
                     /\ HasFile(disk, key, name)
                     /\ disk[key][name] = Delivered
                     /\ Len(disk[key][name]) > N

\* A chunk took a session from below its size to beyond it, and the file
\* holds more bytes than were announced.
C5_Witness ==
    /\ ChunkInSession
    /\ last.client.sent # <<>>
    /\ Len(last.client.sent) < last.client.size
    /\ Len(Delivered) > last.client.size
    /\ last.fin = "true"
    /\ Len(disk[last.client.key][TheBase(last.client.filename)])
         = last.client.size + 1

\* ---------------------------------------------------------------------- C6
\* C6 (as claimed): finalize replaces the file atomically.  After any
\* callback every file of the tree holds either what it held before the
\* callback or the complete buffer of the session that was finalized, never
\* an empty or partial file, also when the write fails.
C6_AtomicReplace ==
    \A k \in DOMAIN disk : \A n \in DOMAIN disk[k] :
       \/ HasFile(last.disk, k, n) /\ disk[k][n] = last.disk[k][n]
       \/ ChunkInSession /\ disk[k][n] = Delivered

\* ---------------------------------------------------------------------- C7
\* C7: a raw chunk written while no session exists is dropped.  The session
\* stays Idle with an empty buffer (bytes_received 0), the tree is unchanged,
\* nothing is notified and nothing is raised; and the buffer of a session
\* begun later is empty, so it holds none of the dropped bytes.
C7_IdleChunkDropped ==
    /\ (last.op = "chunk" /\ last.fm.upload_key = None) =>
         /\ fm = last.fm
         /\ fm.upload_key = None
         /\ fm.upload_buffer = <<>>
         /\ disk = last.disk
         /\ notified = <<>>
         /\ raised = "none"
    /\ (IsCommand("upload") /\ last.fm.upload_key = None
          /\ fm.upload_key # None) =>
         fm.upload_buffer = <<>>

\* Bytes were written to the transfer channel while the session was Idle.
C7_Witness ==
    /\ last.op = "chunk"
    /\ last.fm.upload_key = None
    /\ last.arg # <<>>
    /\ fm.upload_key = None
    /\ notified = <<>>

\* ---------------------------------------------------------------------- C8
\* Field f of command object c is present and holds a non-empty string.
NonEmptyField(c, f) == f \in DOMAIN c /\ c[f] # <<>>

\* Command object c names a key, a file name and a positive size.
UploadFieldsValid(c) ==
    /\ NonEmptyField(c, "key")
    /\ NonEmptyField(c, "filename")
    /\ "size" \in DOMAIN c /\ c.size > 0

\* C8: upload command validation.  An upload command whose key or file name
\* is missing or empty, or whose size is missing or <= 0, sends exactly one
\* status notification, an error with a message, starts no session and
\* leaves the session in flight (key, name, size, buffer) and the tree as
\* they were; an upload command with all three valid begins the session it
\* names with an empty buffer and sends exactly one status "ready".
C8_UploadValidation ==
    (IsCommand("upload") /\ ~size_is_text(last.arg)) =>
       LET c == last.arg.fields
       IN  IF UploadFieldsValid(c)
           THEN /\ notified = <<notify_status([status |-> "ready"])>>
                /\ fm.upload_key = c.key
                /\ IsBaseOf(fm.upload_filename, c.filename)
                /\ fm.upload_expected_size = c.size
                /\ fm.upload_buffer = <<>>
                /\ disk = last.disk
           ELSE /\ Len(notified) = 1
                /\ notified[1].uuid = "TRANSFER_STATUS"
                /\ notified[1].value.status = "error"
                /\ "message" \in DOMAIN notified[1].value
                /\ fm = last.fm
                /\ disk = last.disk
                /\ raised = "none"

\* An upload command of size 0 arrived while a session had bytes buffered.
C8_Witness ==
    /\ IsCommand("upload")
    /\ ~UploadFieldsValid(last.arg.fields)
    /\ "size" \in DOMAIN last.arg.fields
    /\ last.arg.fields.size = 0
    /\ fm.upload_buffer # <<>>
    /\ notified[1].value.status = "error"

\* ---------------------------------------------------------------------- C9
\* Command object c in the documented form: slot and fileName, non-empty.
DocumentedFields(c) == NonEmptyField(c, "slot") /\ NonEmptyField(c, "fileName")

\* C9 (as claimed): the dispatcher reads the slot and the file name from the
\* fields slot and fileName.  An upload command {action, slot, fileName,
\* size} with non-empty S, F and N > 0 puts the session in Receiving for S,
\* base(F), N and is answered "ready"; a delete command {action, slot,
\* fileName} leaves no file base(F) in slot S.
C9_DocumentedFormat ==
    /\ (IsCommand("upload") /\ DocumentedFields(last.arg.fields)
          /\ "size" \in DOMAIN last.arg.fields /\ last.arg.fields.size > 0) =>
         /\ fm.upload_key = last.arg.fields.slot
         /\ fm.upload_filename = TheBase(last.arg.fields.fileName)
         /\ fm.upload_expected_size = last.arg.fields.size
         /\ notified = <<notify_status([status |-> "ready"])>>
    /\ (IsCommand("delete") /\ DocumentedFields(last.arg.fields)
          /\ last.io = "ok") =>
         ~HasFile(disk, last.arg.fields.slot, TheBase(last.arg.fields.fileName))

\* C9 (amended): the fields are named key and filename.  An upload command
\* {action, key, filename, size} with non-empty S, F and N > 0 puts the
\* session in Receiving for S, base(F), N and is answered "ready"; a delete
\* command {action, key, filename} removes file base(F) of key S, and nothing
\* else, unless the operating system refuses.  The fields slot and fileName
\* are not read: a command that carries only those is answered with status
\* error and changes neither the session nor the tree.
C9_KeyFilenameFields ==
    /\ (IsCommand("upload") /\ UploadFieldsValid(last.arg.fields)) =>
         /\ fm.upload_key = last.arg.fields.key
         /\ fm.upload_filename = TheBase(last.arg.fields.filename)
         /\ fm.upload_expected_size = last.arg.fields.size
         /\ fm.upload_buffer = <<>>
         /\ notified = <<notify_status([status |-> "ready"])>>
    /\ (IsCommand("delete") /\ NonEmptyField(last.arg.fields, "key")
          /\ NonEmptyField(last.arg.fields, "filename")) =>
         LET key == last.arg.fields.key
             name == TheBase(last.arg.fields.filename)
         IN  /\ last.io = "ok" => ~HasFile(disk, key, name)
             /\ SameExceptFile(last.disk, disk, key, name)
             /\ DOMAIN disk = DOMAIN last.disk
    /\ ((IsCommand("upload") \/ IsCommand("delete"))
          /\ DocumentedFields(last.arg.fields)
          /\ ~NonEmptyField(last.arg.fields, "key")) =>
         /\ Len(notified) = 1
         /\ notified[1].value.status = "error"
         /\ fm = last.fm
         /\ disk = last.disk

\* A delete command naming key and filename removed a file that was there.
C9_Witness ==
    /\ IsCommand("delete")
    /\ NonEmptyField(last.arg.fields, "key")
    /\ NonEmptyField(last.arg.fields, "filename")
    /\ notified[1].value.status = "deleted"
    /\ HasFile(last.disk, last.arg.fields.key, TheBase(last.arg.fields.filename))
    /\ ~HasFile(disk, last.arg.fields.key, TheBase(last.arg.fields.filename))

\* --------------------------------------------------------------------- C10
\* C10: delete command protocol.  A delete command with non-empty key and
\* file name sends exactly two notifications: first one status, "deleted"
\* when the file was removed and "error" otherwise, then one file list whose
\* payload is the listing of the tree after the deletion; it raises nothing
\* and leaves the upload session as it was.
C10_DeleteProtocol ==
    (IsCommand("delete") /\ NonEmptyField(last.arg.fields, "key")
       /\ NonEmptyField(last.arg.fields, "filename")) =>
       LET key == last.arg.fields.key
           name == TheBase(last.arg.fields.filename)
           removed == HasFile(last.disk, key, name) /\ ~HasFile(disk, key, name)
       IN  /\ Len(notified) = 2
           /\ notified[1] =
                notify_status([status |-> IF removed THEN "deleted" ELSE "error"])
           /\ notified[2].uuid = "FILE_LIST"
           /\ \E env \in CommandEnvs :
                notified[2].value = list_all_files(disk, env.unreadable)
           /\ raised = "none"
           /\ fm = last.fm

\* A file was deleted while an upload had bytes buffered, and the list that
\* was notified no longer names it.
C10_Witness ==
    /\ IsCommand("delete")
    /\ Len(notified) = 2
    /\ notified[1].value.status = "deleted"
    /\ last.arg.fields.key = K1
    /\ HasFile(last.disk, K1, A_WAV)
    /\ notified[2].value[K1] = <<>>
    /\ fm.upload_buffer # <<>>


\* --------------------------------------------------------------------- C11
\* The listing of tree d when every directory can be read.
Listing(d) == list_all_files(d, {})

\* C11: delete effect on the file list.  delete_file(key, filename) on a
\* name whose base component is not a file of that key returns False and
\* leaves the tree and list_all_files() unchanged; on a file that is there
\* and listed it returns True, unless the operating system refuses, and the
\* new list is the old one with exactly that name removed from that key:
\* the other names of the key in the same order, every other key unchanged.
C11_DeleteEffect ==
    last.op = "delete_file" =>
       LET key == last.arg.key
           name == TheBase(last.arg.filename)
           old == Listing(last.disk)
           new == Listing(disk)
           listed == key \in DOMAIN old /\ \E i \in DOMAIN old[key] : old[key][i] = name
       IN  /\ ~HasFile(last.disk, key, name) =>
                /\ last.ret = FALSE
                /\ disk = last.disk
                /\ new = old
           /\ (HasFile(last.disk, key, name) /\ listed /\ last.io = "ok") =>
                /\ last.ret = TRUE
                /\ new[key] = SelectSeq(old[key], LAMBDA x : x # name)
                /\ Len(new[key]) = Len(old[key]) - 1
                /\ \A k \in DOMAIN old : k # key => new[k] = old[k]
                /\ DOMAIN new = DOMAIN old
           /\ last.ret = FALSE => disk = last.disk

\* b.mp3 was deleted from a Key1 that listed three names, while Key2 listed
\* two.
C11_Witness ==
    /\ last.op = "delete_file"
    /\ last.arg = [key |-> K1, filename |-> B_MP3]
    /\ last.ret = TRUE
    /\ Listing(last.disk)[K1] = <<UP_A_WAV, A_WAV, B_MP3>>
    /\ Listing(disk)[K1] = <<UP_A_WAV, A_WAV>>
    /\ Listing(disk)[K2] = <<A_WAV, B_MP3>>


\* --------------------------------------------------------------------- C12
\* C12: malformed command payload.  A payload written to the command
\* channel that is not UTF-8, or not JSON, is answered with exactly one
\* notification, a status error with the message "invalid JSON"; nothing is
\* raised to the caller, no file list is notified, and the session in
\* flight (key, name, expected size, buffered bytes) and the tree are left
\* as they were.
C12_MalformedPayload ==
    (last.op = "command" /\ last.arg.kind \in {"malformed", "bad_utf8"}) =>
       /\ notified =
            <<notify_status([status |-> "error", message |-> <<"invalid JSON">>])>>
       /\ raised = "none"
       /\ fm = last.fm
       /\ disk = last.disk

\* Bytes that are not UTF-8 arrived while a session had bytes buffered.
C12_Witness ==
    /\ last.op = "command"
    /\ last.arg.kind = "bad_utf8"
    /\ fm.upload_key # None
    /\ fm.upload_buffer # <<>>
    /\ Len(notified) = 1

\* --------------------------------------------------------------------- C13
\* C13 (as claimed): every write to the command channel, whatever its
\* payload, returns without raising and sends at least one status
\* notification; this includes JSON that is not an object and command
\* objects whose size is not a number.
C13_EveryErrorNotified ==
    last.op = "command" =>
       /\ raised = "none"
       /\ \E i \in DOMAIN notified : notified[i].uuid = "TRANSFER_STATUS"

\* --------------------------------------------------------------------- C14
\* C14: unknown action.  A command object whose action is neither upload
\* nor delete, or is missing (None), is answered with exactly one
\* notification, a status error whose message is "unknown action: "
\* followed by the action; nothing is raised, no file list is notified, and
\* the session and the tree are left as they were.
C14_UnknownAction ==
    (last.op = "command" /\ last.arg.kind = "object"
       /\ ("action" \in DOMAIN last.arg.fields =>
             last.arg.fields.action \notin {"upload", "delete"})) =>
       LET a == IF "action" \in DOMAIN last.arg.fields
                THEN last.arg.fields.action ELSE "None"
       IN  /\ Len(notified) = 1
           /\ notified[1].uuid = "TRANSFER_STATUS"
           /\ notified[1].value.status = "error"
           /\ notified[1].value.message = <<"unknown action: ", a>>
           /\ raised = "none"
           /\ fm = last.fm
           /\ disk = last.disk

\* A command with action "rename" arrived while a session had bytes
\* buffered.
C14_Witness ==
    /\ IsCommand("rename")
    /\ fm.upload_buffer # <<>>
    /\ notified[1].value.message = <<"unknown action: ", "rename">>


\* --------------------------------------------------------------------- C15
\* C15 (as claimed): completion notifications.  A chunk that brings the
\* buffered total of a session to its expected size or beyond is answered,
\* in the same callback, with exactly two notifications: one status,
\* "complete" when the write succeeded and "error" when it failed, then one
\* file list carrying the listing of the tree after the write; no
\* "receiving" status is sent for that chunk.
C15_CompletionNotifications ==
    ( /\ last.op = "chunk"
      /\ last.fm.upload_key # None
      /\ Len(last.fm.upload_buffer) + Len(last.arg) >= last.fm.upload_expected_size )
    => /\ Len(notified) = 2
       /\ notified[1] =
            notify_status([status |-> IF last.fin = "true" THEN "complete" ELSE "error"])
       /\ notified[2] = [uuid |-> "FILE_LIST", value |-> Listing(disk)]


\* --------------------------------------------------------------------- C16
\* C16 (as claimed): progress throttling.  While a session is in progress
\* the number of "receiving" notifications sent for it, over chunks of any
\* lengths, is at most floor(bytes received / (10 * CHUNK_SIZE)) + 1.
C16_ProgressThrottle ==
    fm.upload_key # None =>
       progress <= (Len(fm.upload_buffer) \div (10 * CHUNK_SIZE)) + 1


\* --------------------------------------------------------------------- C17
\* The twelve slot names.
TwelveKeys ==
    LET Key == <<"K", "e", "y">>
    IN  {Key \o <<"1">>, Key \o <<"2">>, Key \o <<"3">>, Key \o <<"4">>,
         Key \o <<"5">>, Key \o <<"6">>, Key \o <<"7">>, Key \o <<"8">>,
         Key \o <<"9">>, Key \o <<"1", "0">>, Key \o <<"1", "1">>,
         Key \o <<"1", "2">>}

\* Name n ends in .wav or .mp3, in any case, and does not start with a dot.
Listable(n) ==
    /\ Len(n) >= 4
    /\ n[1] # "."
    /\ [i \in 1..4 |-> LowerChar(n[Len(n) - 4 + i])]
         \in {<<".", "w", "a", "v">>, <<".", "m", "p", "3">>}

\* s comes before t in lexicographic order of code points.
Before(s, t) ==
    \E i \in 1..Len(t) :
       /\ \A j \in 1..(i - 1) : j <= Len(s) /\ s[j] = t[j]
       /\ i > Len(s) \/ (i <= Len(s) /\ Ord(s[i]) < Ord(t[i]))

\* C17: file-list payload shape.  In every state, whichever key directories
\* fail to be listed, list_all_files() has exactly the 12 slot names as
\* keys; a slot whose directory is missing, empty or unreadable maps to the
\* empty list; every other slot maps to the names of its directory that end
\* in .wav or .mp3 (in any case) and do not start with a dot, each once, in
\* ascending lexicographic order.  The file-list read returns that value.
C17_FileListShape ==
    /\ \A U \in SUBSET {K1, K2} :
         LET L == list_all_files(disk, U)
         IN  /\ DOMAIN L = TwelveKeys
             /\ \A k \in TwelveKeys :
                  IF k \notin DOMAIN disk \/ k \in U
                  THEN L[k] = <<>>
                  ELSE /\ {L[k][i] : i \in DOMAIN L[k]}
                            = {n \in DOMAIN disk[k] : Listable(n)}
                       /\ \A i, j \in DOMAIN L[k] :
                            i < j => Before(L[k][i], L[k][j])
    /\ (last.op = "read" /\ last.arg.uuid = "FILE_LIST") =>
         last.ret = list_all_files(disk, last.arg.unreadable)

\* The file list was read while Key1 held three eligible names, a hidden
\* one and one with another extension, and Key2 could not be listed.
C17_Witness ==
    /\ last.op = "read"
    /\ last.arg.uuid = "FILE_LIST"
    /\ last.arg.unreadable = {K2}
    /\ K1 \in DOMAIN disk /\ DOMAIN disk[K1] = SlotNames
    /\ K2 \in DOMAIN disk /\ DOMAIN disk[K2] = {A_WAV, B_MP3}
    /\ last.ret[K1] = <<UP_A_WAV, A_WAV, B_MP3>>
    /\ last.ret[K2] = <<>>
    /\ last.ret[K12] = <<>>


\* --------------------------------------------------------------------- C18
\* C18: rescan is idempotent.  When scan_and_update runs (is not throttled)
\* on an index that an earlier run left, the tree unchanged since, it
\* returns False and leaves samples and _file_cache exactly as they were:
\* no load succeeds and nothing is removed.  This includes a candidate that
\* failed to load in the earlier run: it is tried again and fails again.
C18_RescanIdempotent ==
    (last.op = "scan" /\ last.ran /\ last.settled) =>
       /\ last.ret = FALSE
       /\ loader.samples = last.loader.samples
       /\ loader.file_cache = last.loader.file_cache
       /\ \A i \in DOMAIN last.loads : ~last.loads[i].ok
       /\ last.removed = {}

\* A second run on a tree whose Key1 candidate cannot be loaded and whose
\* Key2 is indexed: the load was tried again, and the index kept.
C18_Witness ==
    /\ last.op = "scan" /\ last.ran /\ last.settled
    /\ last.loads = <<[path |-> join(K1, A_WAV), ok |-> FALSE]>>
    /\ 51 \in DOMAIN loader.samples
    /\ 50 \in DOMAIN loader.samples
    /\ loader.file_cache[50].path = join(K1, B_WAV)


\* --------------------------------------------------------------------- C19
\* The eligible names of slot key in tree d: a supported extension, not
\* hidden.
EligibleNames(d, key) ==
    IF key \in DOMAIN d THEN {n \in DOMAIN d[key] : Listable(n)} ELSE {}

\* C19 (as claimed): lexicographic selection.  After a rescan that ran and
\* in which every load succeeded, each slot that has eligible files has as
\* its active sample the eligible file of its own directory whose name
\* sorts first, whatever the modification times and whatever the other
\* slots hold.
C19_LexicographicSelection ==
    (last.op = "scan" /\ last.ran /\ \A i \in DOMAIN last.loads : last.loads[i].ok) =>
       \A i \in DOMAIN NOTE_MAPPING :
          LET key == NOTE_MAPPING[i].key
              note == NOTE_MAPPING[i].note
              E == EligibleNames(disk, key)
          IN  E # {} =>
                /\ note \in DOMAIN loader.samples
                /\ \E n \in E :
                     /\ \A m \in E \ {n} : Before(n, m)
                     /\ loader.samples[note].file = key \o <<"/">> \o n
                     /\ loader.file_cache[note].path = key \o <<"/">> \o n

\* --------------------------------------------------------------------- C20
\* C20 (as claimed): rescan considers only eligible files.  A rescan never
\* tries to load a file whose name starts with a dot or has an extension
\* other than .wav / .mp3, and after a rescan that ran a slot whose
\* directory holds no eligible file has no entry in the index.
C20_OnlyEligibleFiles ==
    last.op = "scan" =>
       /\ \A i \in DOMAIN last.loads : Listable(TheBase(last.loads[i].path))
       /\ last.ran =>
            \A i \in DOMAIN NOTE_MAPPING :
               EligibleNames(disk, NOTE_MAPPING[i].key) = {} =>
                  /\ NOTE_MAPPING[i].note \notin DOMAIN loader.samples
                  /\ NOTE_MAPPING[i].note \notin DOMAIN loader.file_cache


\* --------------------------------------------------------------------- C21
\* Name n has the extension .wav or .mp3, in any case.
AudioName(n) ==
    /\ Len(n) >= 4
    /\ [i \in 1..4 |-> LowerChar(n[Len(n) - 4 + i])]
         \in {<<".", "w", "a", "v">>, <<".", "m", "p", "3">>}

\* The candidates of slot key in tree d as (path, mtime): the file the
\* rescan selects, the audio file of the slot whose name sorts first.  The
\* set is empty when the slot has no audio file, a singleton otherwise.
Candidates(d, key) ==
    IF key \notin DOMAIN d THEN {}
    ELSE {[path |-> key \o <<"/">> \o n, mtime |-> d[key][n].mtime] :
            n \in {m \in DOMAIN d[key] :
                     /\ AudioName(m)
                     /\ \A o \in DOMAIN d[key] : (AudioName(o) /\ o # m) => Before(m, o)}}

\* The file of tree d at path p can be loaded.
Loadable(d, p) ==
    \E k \in DOMAIN d : \E n \in DOMAIN d[k] :
       p = k \o <<"/">> \o n /\ d[k][n].loadable

\* Loader states l and m have the same entry, or both none, for note.
SameEntry(l, m, note) ==
    /\ (note \in DOMAIN l.samples) = (note \in DOMAIN m.samples)
    /\ (note \in DOMAIN l.file_cache) = (note \in DOMAIN m.file_cache)
    /\ note \in DOMAIN l.samples => l.samples[note] = m.samples[note]
    /\ note \in DOMAIN l.file_cache => l.file_cache[note] = m.file_cache[note]

\* The selected candidate c of the slot of note differs from what l caches.
Differs(l, note, c) ==
    note \notin DOMAIN l.file_cache \/ l.file_cache[note] # c

\* C21: load failure keeps the working sample.  In a rescan that runs, a
\* slot whose selected candidate differs from the cached (path, mtime) is
\* loaded; when the load fails the slot's handle and cached tuple stay
\* exactly as they were (so the candidate differs again, and is tried
\* again, in the next rescan); failures alone make no change event (the
\* rescan returns False when nothing loaded and nothing was removed); and
\* the other slots are processed in the same rescan: each differing
\* candidate that loads is entered.
C21_LoadFailureKeepsSample ==
    (last.op = "scan" /\ last.ran) =>
       /\ \A i \in DOMAIN NOTE_MAPPING :
            \A c \in Candidates(disk, NOTE_MAPPING[i].key) :
               LET note == NOTE_MAPPING[i].note
               IN  Differs(last.loader, note, c) =>
                     IF Loadable(disk, c.path)
                     THEN /\ \E j \in DOMAIN last.loads :
                               last.loads[j] = [path |-> c.path, ok |-> TRUE]
                          /\ loader.file_cache[note] = c
                     ELSE /\ \E j \in DOMAIN last.loads :
                               last.loads[j] = [path |-> c.path, ok |-> FALSE]
                          /\ SameEntry(loader, last.loader, note)
       /\ ((\A j \in DOMAIN last.loads : ~last.loads[j].ok) /\ last.removed = {})
            => last.ret = FALSE /\ loader.samples = last.loader.samples

\* The new a.wav of Key1 failed to load while b.wav was indexed: b.wav was
\* kept, and Key2 was loaded in the same rescan.
C21_Witness ==
    /\ last.op = "scan" /\ last.ran
    /\ last.loads = <<[path |-> join(K1, A_WAV), ok |-> FALSE],
                      [path |-> join(K2, B_MP3), ok |-> TRUE]>>
    /\ last.loader.samples = (50 :> [file |-> join(K1, B_WAV), mtime |-> 1])
    /\ loader.samples[50] = [file |-> join(K1, B_WAV), mtime |-> 1]
    /\ loader.file_cache[50] = [path |-> join(K1, B_WAV), mtime |-> 1]
    /\ 51 \in DOMAIN loader.samples


\* --------------------------------------------------------------------- C22
\* C22 (as claimed): removal and replacement.  After a rescan that ran, a
\* slot that had an entry and has no eligible file (supported extension,
\* not hidden) has no entry in samples and none in _file_cache, and the
\* rescan returned True; a slot whose selected (path, mtime) differs from
\* the cached tuple and loads has its handle and cached tuple replaced by
\* the new ones; a slot whose selected (path, mtime) equals the cached tuple
\* is not loaded again and keeps its handle.
C22_RemovalAndReplacement ==
    (last.op = "scan" /\ last.ran) =>
       \A i \in DOMAIN NOTE_MAPPING :
          LET key == NOTE_MAPPING[i].key
              note == NOTE_MAPPING[i].note
          IN  /\ (note \in DOMAIN last.loader.samples /\ EligibleNames(disk, key) = {}) =>
                    /\ note \notin DOMAIN loader.samples
                    /\ note \notin DOMAIN loader.file_cache
                    /\ last.ret = TRUE
              /\ \A c \in Candidates(disk, key) :
                    IF Differs(last.loader, note, c)
                    THEN Loadable(disk, c.path) =>
                            /\ loader.samples[note] = [file |-> c.path, mtime |-> c.mtime]
                            /\ loader.file_cache[note] = c
                    ELSE /\ SameEntry(loader, last.loader, note)
                         /\ \A j \in DOMAIN last.loads : last.loads[j].path # c.path


\* --------------------------------------------------------------------- C23
\* C23: rescan throttling.  An unforced scan that runs is at least
\* scan_interval after the last scan that ran before it; an unforced call
\* made less than scan_interval after the last scan that ran, forced or
\* not, returns False without entering the loop over the slots (the only
\* place that reads the file system) and leaves the index as it was; the
\* first call on a loader just constructed runs.
C23_RescanThrottle ==
    last.op = "scan" =>
       /\ (last.ran /\ ~last.forced) => last.at - last.prev >= scan_interval
       /\ (~last.forced /\ last.at - last.prev < scan_interval) =>
             /\ ~last.ran
             /\ last.ret = FALSE
             /\ last.loads = <<>> /\ last.removed = {}
             /\ loader = last.loader
       /\ last.first => last.ran

\* An unforced call one second after the last scan that ran, on an index
\* that the tree no longer matches.
C23_Witness ==
    /\ last.op = "scan" /\ ~last.forced /\ ~last.ran
    /\ last.prev >= StartTime
    /\ last.at = last.prev + 1
    /\ \E c \in Candidates(disk, K1) : Differs(loader, 50, c)


\* --------------------------------------------------------------------- C24
\* The sounds that are playing, one for each busy channel.
Playing(mx) == {c \in DOMAIN mx : mx[c] # NoSound}

\* The last event handled was a note-on of velocity > 0 for note n.
NoteOn(n) ==
    /\ last.op = "note"
    /\ last.event.status \in {144, 145}
    /\ last.event.data1 = n
    /\ last.event.data2 > 0

\* The note of slot key in NOTE_MAPPING.
NoteOf(key) ==
    NOTE_MAPPING[CHOOSE i \in DOMAIN NOTE_MAPPING : NOTE_MAPPING[i].key = key].note

\* C24: stop slot.  After a note-on of velocity > 0 for the note of Key1
\* (50) nothing is playing, whether something was playing or not and
\* whether Key1 has a sample or not, and no sound was started.
C24_StopSlot ==
    NoteOn(50) =>
       /\ NoteOf(STOP_KEY_NAME) = 50
       /\ Playing(mixer) = {}
       /\ last.did # "play"
       /\ last.raised = "none"

\* The stop slot was triggered while Key2's sample played and Key1 had a
\* sample of its own.
C24_Witness ==
    /\ NoteOn(50)
    /\ Playing(last.mixer) # {}
    /\ 50 \in DOMAIN last.loader.samples

\* --------------------------------------------------------------------- C25
\* The last event handled was a note-off, or a note-on of velocity 0.
Release ==
    /\ last.op = "note"
    /\ \/ last.event.status = 128
       \/ last.event.status \in {144, 145} /\ last.event.data2 = 0

\* C25: velocity-0 and note-off events are inert.  For every note, mapped,
\* unmapped or the stop slot's, a note-on of velocity 0 and a note-off of
\* any velocity leave every channel and the index as they were.
C25_ReleaseInert ==
    Release => mixer = last.mixer /\ loader = last.loader /\ last.raised = "none"

\* A note-off for Key2 while Key2's sample plays.
C25_Witness ==
    /\ Release
    /\ last.event.status = 128 /\ last.event.data1 = 51
    /\ Playing(last.mixer) # {}
    /\ 51 \in DOMAIN loader.samples

\* --------------------------------------------------------------------- C26
\* C26: monophonic playback.  At most one sound plays.  A note-on of
\* velocity > 0 for a slot other than the stop slot that has a sample, when
\* Channel.play does not fail, leaves exactly that slot's current sample
\* playing, whatever played before; a note-on for a mapped slot without a
\* sample, or for a note that is not mapped, leaves every channel as it was.
C26_Monophonic ==
    /\ Cardinality(Playing(mixer)) <= 1
    /\ \A n \in {51, 52, 62} :
          NoteOn(n) =>
             IF n \in DOMAIN last.loader.samples
             THEN last.raised = "none" =>
                    /\ Playing(mixer) = {current_channel}
                    /\ mixer[current_channel] = last.loader.samples[n]
             ELSE mixer = last.mixer /\ last.raised = "none"

\* Key2 is triggered while the older version of its sample still plays: the
\* newer one, loaded by a rescan since, replaces it.
C26_Witness ==
    /\ NoteOn(51)
    /\ Playing(last.mixer) # {}
    /\ mixer[current_channel] # last.mixer[current_channel]
    /\ Playing(mixer) = {current_channel}


\* --------------------------------------------------------------------- C27
\* Every resource the process took was released, each once.
TornDownOnce ==
    /\ ~proc.port_open /\ ~proc.mixer_init /\ ~proc.pin_exported
    /\ proc.closes = 1
    /\ proc.quits = 1
    /\ proc.releases = IF proc.prog = "midi_sampler" THEN 1 ELSE 0

\* C27 (as claimed): shutdown.  Once a signal was delivered while the loop
\* ran, the process eventually exits, and when it has exited the MIDI input
\* was closed, the mixer was quit and the amplifier pin (midi_sampler) was
\* released, each exactly once.
C27_Shutdown ==
    (proc.pc # "none" /\ proc.signals > 0 /\ ~proc.fatal)
       ~> (proc.pc = "exited" /\ TornDownOnce)


\* --------------------------------------------------------------------- C28
\* The loop is running: the process is between two ticks or backing off.
InLoop == proc.pc \in {"loop", "backoff"}

\* What holds in every state of a loop that survives its failures: a tick
\* that raised was caught by the loop, which backs off; a failure of the
\* note handling leaves the index as it was; and the process is past its
\* loop only after a signal or a fatal start.
SurvivesFailure ==
    /\ (last.op = "tick" /\ last.raised # "none") =>
          /\ proc.pc = "backoff" /\ proc.failed
          /\ last.raised = "pygame.error" => loader = last.loader
    /\ last.op = "backoff" => proc.pc = "loop" /\ loader = last.loader
    /\ (proc.pc \notin {"start", "loop", "backoff"}) =>
          proc.signals > 0 \/ proc.fatal

\* C28: the control loop survives per-tick failures.  An exception raised
\* while a note event is handled or the samples are rescanned is caught by
\* the loop, which backs off and then runs its next tick; every event that
\* has arrived once a tick has failed is polled, unless a signal ends the
\* loop; nothing but a signal or a fatal start ends the loop.
C28_LoopSurvives ==
    /\ []SurvivesFailure
    /\ (proc.pc = "backoff") ~> (proc.pc = "loop" \/ proc.signals > 0)
    /\ \A k \in 1..MaxEvents :
          (proc.failed /\ proc.arrived >= k) ~> (proc.polled >= k \/ proc.signals > 0)

\* The first event's handling raised; the loop went on, polled the second
\* and played it.
C28_Witness ==
    /\ proc.failed /\ InLoop
    /\ proc.polled = 2
    /\ last.op = "tick" /\ last.did = "play" /\ last.raised = "none"


\* --------------------------------------------------------------------- C29
\* n is a bare name: not empty, without a path separator.
BareName(n) == n # <<>> /\ n # None /\ \A i \in DOMAIN n : n[i] # "/"

\* C29 (as claimed): session file name invariant.  Whenever a session is in
\* progress its target file name is a non-empty bare name and its expected
\* size is > 0; an upload command whose file name has an empty base
\* component starts no session.
C29_SessionFileName ==
    /\ upload_in_progress(fm) =>
          BareName(fm.upload_filename) /\ fm.upload_expected_size > 0
    /\ (IsCommand("upload") /\ "filename" \in DOMAIN last.arg.fields
          /\ IsBaseOf(<<>>, last.arg.fields.filename)) =>
             fm = last.fm


\* --------------------------------------------------------------------- C30
\* C30 (as claimed): storage confinement.  Whatever keys and file names the
\* upload and delete commands carry, the tree has no directory but those of
\* the 12 slots, and every file is a direct child of one of them: its name
\* is a bare name.
C30_StorageConfinement ==
    \A k \in DOMAIN disk :
       /\ k \in KeyNames
       /\ \A n \in DOMAIN disk[k] : BareName(n)


\* --------------------------------------------------------------------- C31
\* C31 (as claimed): the session at quiescence.  Between two callbacks a
\* session in progress has buffered strictly fewer bytes than it expects, so
\* the transfer-status read never reports receiving with bytes_received >=
\* bytes_expected; the read reports idle exactly when no session exists,
\* and otherwise bytes_received is the total length of the chunks received
\* since the last begin.
C31_QuiescentSession ==
    LET st == get_transfer_status(fm)
    IN  /\ upload_in_progress(fm) =>
              bytes_received(fm) < fm.upload_expected_size
        /\ st.status = "receiving" => st.bytes_received < st.bytes_expected
        /\ (st.status = "idle") = (client = NoClient)
        /\ st.status # "idle" => st.bytes_received = Len(client.sent)


\* --------------------------------------------------------------------- C32
\* C32 (as claimed): the index and the file list agree.  After a rescan
\* that ran and in which every load succeeded, on the tree it scanned, each
\* slot has an active sample iff list_all_files() gives a non-empty list
\* for it, and the active sample is the file named first in that list.
C32_IndexAndListAgree ==
    (last.op = "scan" /\ last.ran /\ \A j \in DOMAIN last.loads : last.loads[j].ok) =>
       \A i \in DOMAIN NOTE_MAPPING :
          LET key == NOTE_MAPPING[i].key
              note == NOTE_MAPPING[i].note
              files == list_all_files(disk, {})[key]
          IN  /\ (note \in DOMAIN loader.samples) = (files # <<>>)
              /\ files # <<>> =>
                    loader.samples[note].file = key \o <<"/">> \o files[1]


\* --------------------------------------------------------------------- C33
\* The notes of NOTE_MAPPING.
MappedNotes == {NOTE_MAPPING[i].note : i \in DOMAIN NOTE_MAPPING}

\* C33: scan_and_update returns True iff it changed the index.  For every
\* prior index and tree, forced or not, throttled or not, the call returns
\* True exactly when samples or _file_cache differ from what they were
\* before it; and samples and _file_cache always have the same notes as
\* keys, all of them notes of NOTE_MAPPING.
C33_ReturnsTrueIffChanged ==
    /\ last.op = "scan" =>
          (last.ret = TRUE) =
             (\/ loader.samples # last.loader.samples
              \/ loader.file_cache # last.loader.file_cache)
    /\ DOMAIN loader.samples = DOMAIN loader.file_cache
    /\ DOMAIN loader.samples \subseteq MappedNotes

\* A rescan whose only change was the removal of Key2's entry, while the
\* new file of Key1 failed to load.
C33_Witness ==
    /\ last.op = "scan" /\ last.ran /\ last.ret = TRUE
    /\ last.removed = {K2}
    /\ last.loads # <<>>
    /\ \A j \in DOMAIN last.loads : ~last.loads[j].ok
    /\ 51 \in DOMAIN last.loader.samples /\ 51 \notin DOMAIN loader.samples


\* --------------------------------------------------------------------- C34
\* The sound was loaded from a file of the directory of slot key.
LoadedFor(sound, key) ==
    /\ sound # NoSound
    /\ Len(sound.file) > Len(key)
    /\ SubSeq(sound.file, 1, Len(key) + 1) = key \o <<"/">>

\* C34: the sample of the stop slot is never played.  Whatever uploads,
\* rescans and note events there have been, no channel plays a sound loaded
\* for Key1 and no event of note 50 has started a sound; yet Key1 takes
\* uploads like any slot: after a rescan, a Key1 that holds an audio file
\* shows it in the file list and has it loaded in the index under note 50.
C34_StopSampleNeverPlayed ==
    /\ \A c \in DOMAIN mixer : ~LoadedFor(mixer[c], STOP_KEY_NAME)
    /\ (last.op = "note" /\ last.did = "play") =>
          /\ last.msg.note # NoteOf(STOP_KEY_NAME)
          /\ ~LoadedFor(get_sample(last.loader, last.msg.note), STOP_KEY_NAME)
    /\ (last.op = "scan" /\ isfile(disk, K1, A_WAV)) =>
          /\ list_all_files(disk, {})[K1] = <<A_WAV>>
          /\ 50 \in DOMAIN loader.samples
          /\ LoadedFor(loader.samples[50], STOP_KEY_NAME)
          /\ loader.samples[50].mtime = disk[K1][A_WAV].mtime

\* Note 50 arrived while Key2's sample played and the index held, for
\* Key1, the sample that was uploaded while the sampler ran.
C34_Witness ==
    /\ NoteOn(50)
    /\ last.did = "stop"
    /\ LoadedFor(last.mixer[current_channel], K2)
    /\ LoadedFor(get_sample(loader, 50), K1)
    /\ get_sample(loader, 50).mtime = StartTime
    /\ list_all_files(disk, {})[K1] = <<A_WAV>>

====
